---- MODULE Spec2Model ----
(***************************************************************************)
(* Verification model of the Bazel language service: the Build Graph with  *)
(* its per-file update (BuildGraph::parse_build_file), the file lookup     *)
(* (BuildGraph::get_target_for_file), the Build-Tool Client's cached       *)
(* query (BazelClient::query) and its streamed build (BazelClient::build). *)
(***************************************************************************)
EXTENDS Integers, Sequences, FiniteSets, TLC

(***************************************************************************)
(* Bounds of the model.                                                    *)
(***************************************************************************)
\* how many updateFile calls one behaviour performs
MaxUpdates == 3

(***************************************************************************)
(* Build Graph: data.                                                      *)
(***************************************************************************)
\* the packages of the workspace; package p owns the file p/BUILD
Packages == {"a", "b"}

\* source file names a rule may list in srcs
SrcNames == {"m.go", "n.go"}

\* Option::None where a label, a path or a Target is expected
NoLabel == <<"none", "none">>

NoPath == <<"none", "none">>

NoTarget == [label |-> NoLabel, kind |-> "none", srcs |-> <<>>,
             deps |-> <<>>, location |-> "none"]

\* BuildFileParser::parse_statement: the label is "//" + package + ":" + name
MakeLabel(pkg, name) == <<pkg, name>>

\* path.parent().unwrap().join(src): a source resolved against the package
SrcPath(pkg, src) == <<pkg, src>>

\* every label the texts below can declare
Labels == {MakeLabel(p, n) : p \in Packages, n \in {"x", "y"}}

\* every path the texts below can name
Paths == {SrcPath(p, s) : p \in Packages, s \in SrcNames}

\* a rule invocation as the parser hands it over: kind, name, srcs, deps
RuleX ==
    [kind |-> "go_library", name |-> "x", srcs |-> <<"m.go">>, deps |-> <<>>]

RuleY ==
    [kind |-> "go_test", name |-> "y", srcs |-> <<"m.go", "n.go">>,
     deps |-> <<":x">>]

RuleXn ==
    [kind |-> "go_library", name |-> "x", srcs |-> <<"n.go">>, deps |-> <<>>]

\* the texts a configuration file can have (each the sequence of its rules)
Texts == {<<>>, <<RuleX>>, <<RuleY>>, <<RuleX, RuleY>>, <<RuleXn>>}

\* BazelTarget built by parse_rule from one rule invocation of a file
MakeTarget(pkg, rule) ==
    [label |-> MakeLabel(pkg, rule.name), kind |-> rule.kind,
     srcs |-> rule.srcs, deps |-> rule.deps, location |-> pkg]

VARIABLES
    fileText,        \* the text each configuration file has now
    targets,         \* BuildGraph.targets: label -> BazelTarget (or None)
    file_to_targets, \* BuildGraph.file_to_targets: path -> Vec<label>
    upd,             \* the parse_build_file call in progress
    nUpdates,        \* how many parse_build_file calls have started
    look,            \* the get_target_for_file call in progress
    query_cache,     \* BazelClient.query_cache: LRU order, oldest first
    call,            \* the BazelClient::query call of each caller
    now,             \* the clock, in seconds
    pkgGen,          \* how often the files of each package have changed
    fetchedAt,       \* when the entry of each expression was stored
    usedSince,       \* other expressions used since each one's last use
    nCalls,          \* how many query calls have started
    build,           \* the BazelClient::build call in progress
    nBuilds          \* how many build calls have started

graphVars == <<fileText, targets, file_to_targets, upd, nUpdates, look>>

cacheVars == <<query_cache, call, now, pkgGen, fetchedAt, usedSince, nCalls>>

buildVars == <<build, nBuilds>>

VARIABLES
    rw,              \* BazelLanguageServer.build_graph: the RwLock's state
    scan,            \* the scan_workspace task spawned by initialize
    job,             \* the parse_build_file call of each file of the scan
    diag,            \* what the scan has logged with tracing::warn!
    nScans,          \* how many scans have started
    snap,            \* the Targets map as the first scan left it
    lens,            \* the code_lens request in progress
    parsed,          \* the statement handed to BuildFileParser and its rule
    def              \* the goto_definition request in progress

serverVars == <<rw, scan, job, diag, nScans, snap, lens>>

frontVars == <<parsed, def>>

VARIABLES
    engine,          \* the engine process of each adapter's language
    areq,            \* the adapter request in progress of each language
    failed,          \* the languages whose engine has crashed
    requested,       \* the languages a request has been made for
    opened,          \* the BUILD file handle_did_open has parsed
    walked,          \* the workspace scan_workspace has walked
    notes,           \* how many bazel/targetsChanged have been sent
    tree             \* the target tree of BazelTargetProvider

adapterVars == <<engine, areq, failed, requested>>

walkVars == <<opened, walked, notes, tree>>

sessionVars == <<adapterVars, walkVars>>

VARIABLES
    gram,            \* the BUILD text the grammar has been applied to
    editor,          \* the language of the active editor
    cmd,             \* the command in progress
    view,            \* the package-to-targets map of the tree and its loads
    act,             \* the activation of the extension and its client
    clens            \* the provideCodeLenses call in progress

extVars == <<gram, editor, cmd, view, act, clens>>

vars == <<graphVars, cacheVars, buildVars, serverVars, frontVars,
          sessionVars, extVars>>

IdleUpd == [pc |-> "idle", pkg |-> "none", rules |-> <<>>, i |-> 1, j |-> 1]

IdleLook ==
    [pc |-> "idle", path |-> NoPath, label |-> NoLabel, result |-> NoTarget]

\* BuildGraph as constructed: both maps empty, no call in progress
GraphInit ==
    /\ fileText = [p \in Packages |-> <<>>]
    /\ targets = [l \in Labels |-> NoTarget]
    /\ file_to_targets = [p \in Paths |-> <<>>]
    /\ upd = IdleUpd
    /\ nUpdates = 0
    /\ look = IdleLook

(***************************************************************************)
(* BuildGraph::parse_build_file, the body of updateFile(path, newText).    *)
(* The maps are DashMaps mutated through &self: every push and insert is   *)
(* a step of its own, and lookups run between them.                        *)
(***************************************************************************)
\* read_to_string + BuildParser::parse: the file now holds newText
UpdateStart(pkg, newText) ==
    /\ upd.pc = "idle"
    /\ nUpdates < MaxUpdates
    /\ fileText' = [fileText EXCEPT ![pkg] = newText]
    /\ nUpdates' = nUpdates + 1
    /\ upd' = [pc |-> IF newText = <<>> THEN "end" ELSE "srcs",
               pkg |-> pkg, rules |-> newText, i |-> 1, j |-> 1]
    /\ UNCHANGED <<targets, file_to_targets, look>>
    /\ UNCHANGED <<cacheVars, buildVars, serverVars, frontVars, sessionVars,
                   extVars>>

\* for src in &target.srcs: file_to_targets.entry(src_path).or_insert.push
UpdatePushSrc ==
    /\ upd.pc = "srcs"
    /\ LET rule == upd.rules[upd.i]
           path == SrcPath(upd.pkg, rule.srcs[upd.j])
           label == MakeLabel(upd.pkg, rule.name)
       IN /\ file_to_targets' =
                 [file_to_targets EXCEPT ![path] = Append(@, label)]
          /\ upd' = IF upd.j < Len(rule.srcs)
                    THEN [upd EXCEPT !.j = upd.j + 1]
                    ELSE [upd EXCEPT !.pc = "insert"]
    /\ UNCHANGED <<fileText, targets, nUpdates, look>>
    /\ UNCHANGED <<cacheVars, buildVars, serverVars, frontVars, sessionVars,
                   extVars>>

\* self.targets.insert(label, target), then the next rule of the file
UpdateInsertTarget ==
    /\ upd.pc = "insert"
    /\ LET target == MakeTarget(upd.pkg, upd.rules[upd.i])
       IN targets' = [targets EXCEPT ![target.label] = target]
    /\ upd' = IF upd.i < Len(upd.rules)
              THEN [upd EXCEPT !.pc = "srcs", !.i = upd.i + 1, !.j = 1]
              ELSE [upd EXCEPT !.pc = "end"]
    /\ UNCHANGED <<fileText, file_to_targets, nUpdates, look>>
    /\ UNCHANGED <<cacheVars, buildVars, serverVars, frontVars, sessionVars,
                   extVars>>

\* Ok(()): the call returns
UpdateReturn ==
    /\ upd.pc = "end"
    /\ upd' = IdleUpd
    /\ UNCHANGED <<fileText, targets, file_to_targets, nUpdates, look>>
    /\ UNCHANGED <<cacheVars, buildVars, serverVars, frontVars, sessionVars,
                   extVars>>

(***************************************************************************)
(* BuildGraph::get_target_for_file.                                        *)
(***************************************************************************)
\* self.file_to_targets.get(&path)? and targets.first()
LookupStart(path) ==
    /\ look.pc = "idle"
    /\ look' = IF file_to_targets[path] = <<>>
               THEN [pc |-> "done", path |-> path, label |-> NoLabel,
                     result |-> NoTarget]
               ELSE [pc |-> "label", path |-> path,
                     label |-> Head(file_to_targets[path]),
                     result |-> NoTarget]
    /\ UNCHANGED <<fileText, targets, file_to_targets, upd, nUpdates>>
    /\ UNCHANGED <<cacheVars, buildVars, serverVars, frontVars, sessionVars,
                   extVars>>

\* self.targets.get(label).map(|t| t.clone())
LookupGetTarget ==
    /\ look.pc = "label"
    /\ look' = [look EXCEPT !.pc = "done", !.result = targets[look.label]]
    /\ UNCHANGED <<fileText, targets, file_to_targets, upd, nUpdates>>
    /\ UNCHANGED <<cacheVars, buildVars, serverVars, frontVars, sessionVars,
                   extVars>>

\* the caller has consumed the Option<BazelTarget>
LookupReturn ==
    /\ look.pc = "done"
    /\ look' = IdleLook
    /\ UNCHANGED <<fileText, targets, file_to_targets, upd, nUpdates>>
    /\ UNCHANGED <<cacheVars, buildVars, serverVars, frontVars, sessionVars,
                   extVars>>

(***************************************************************************)
(* Build Graph: what the texts declare, and the claims about updateFile.   *)
(***************************************************************************)
\* the elements of a sequence
Range(seq) == {seq[k] : k \in 1..Len(seq)}

\* the Target the current text of its package declares under a label
DeclaredTarget(label) ==
    LET pkg == label[1]
        decls == {k \in 1..Len(fileText[pkg]) :
                     fileText[pkg][k].name = label[2]}
    IN IF decls = {} THEN NoTarget
       ELSE MakeTarget(pkg, fileText[pkg][CHOOSE k \in decls :
                                             \A m \in decls : m <= k])

\* the labels whose current declaration lists a path among its sources
DeclaredLabelsOf(path) ==
    {l \in Labels : /\ DeclaredTarget(l) # NoTarget
                    /\ l[1] = path[1]
                    /\ path[2] \in Range(DeclaredTarget(l).srcs)}

\* C1 (as claimed): a targetForFile lookup running during an updateFile
\* never finds a label in the file-to-labels index whose Target is missing
\* from the Targets map, and never sees a Target in the map whose declared
\* sources are missing from the index.
C1_LookupNeverSeesTornIndices ==
    /\ (look.pc = "done" /\ look.label # NoLabel) => look.result # NoTarget
    /\ look.pc = "done" =>
          \A l \in Labels : targets[l] # NoTarget =>
              \A k \in 1..Len(targets[l].srcs) :
                  l \in Range(file_to_targets[SrcPath(l[1], targets[l].srcs[k])])

\* C2 (as claimed): once updateFile has returned, both indices hold exactly
\* what the current texts declare: nothing of a previous text survives.
C2_UpdateReplacesContribution ==
    (upd.pc = "idle" /\ nUpdates > 0) =>
        /\ \A l \in Labels : targets[l] = DeclaredTarget(l)
        /\ \A path \in Paths :
              Range(file_to_targets[path]) = DeclaredLabelsOf(path)


GraphNext ==
    \/ \E pkg \in Packages, newText \in Texts : UpdateStart(pkg, newText)
    \/ UpdatePushSrc
    \/ UpdateInsertTarget
    \/ UpdateReturn
    \/ \E path \in Paths : LookupStart(path)
    \/ LookupGetTarget
    \/ LookupReturn

(***************************************************************************)
(* Build-Tool Client: the cached query, BazelClient::query.                *)
(***************************************************************************)
\* how many query calls one behaviour starts
MaxCalls == 3

\* how often the files of one package change
MaxGen == 1

\* the clock stops here (seconds)
MaxTime == 300

\* LruCache::new(NonZeroUsize::new(1000)): the capacity, scaled down so
\* that the expressions below can fill the cache
CacheCapacity == 1

\* bazel.cache.ttl: the configured time-to-live, in seconds
CacheTtl == 300

\* the clock advances in steps of half the time-to-live
TickSeconds == CacheTtl \div 2

\* the tasks that call query concurrently
Callers == {"c1", "c2"}

\* the query expressions; the cache is keyed by the expression string
Queries == {"//a:all", "//b:all"}

\* the package whose files a query expression ranges over
AffectedPackage(q) == IF q = "//b:all" THEN "b" ELSE "a"

\* what the subprocess writes to stderr
StderrTexts == {"ERROR: no such package", "ERROR: syntax error"}

\* what Command::output() yields: the spawn may fail; otherwise the tool
\* exits with a status, a stdout that decodes or not, and a stderr
Outcomes ==
    {[spawn |-> FALSE, exit |-> 1, decodable |-> FALSE, stderr |-> ""]}
    \cup [spawn : {TRUE}, exit : {0}, decodable : BOOLEAN, stderr : {""}]
    \cup [spawn : {TRUE}, exit : {1}, decodable : BOOLEAN,
          stderr : StderrTexts]

NoOutcome == [spawn |-> FALSE, exit |-> 0, decodable |-> FALSE, stderr |-> ""]

\* anyhow::Result<QueryResult>: Ok carries the decoded result (here the
\* generation of the package the tool has read), an error carries its text
OkResult(value) == [kind |-> "Ok", value |-> value, text |-> ""]

ErrResult(kind, text) == [kind |-> kind, value |-> -1, text |-> text]

NoResult == [kind |-> "none", value |-> -1, text |-> ""]

NoFetch == [at |-> -1, gen |-> -1]

\* the status check left out: whatever stdout decodes is returned
QueryOutcomeResultIgnoreExit(out, gen) ==
    IF ~out.spawn THEN ErrResult("SpawnError", "")
    ELSE IF ~out.decodable THEN ErrResult("DecodeError", "")
    ELSE OkResult(gen)

\* a failure turned into an empty result
QueryOutcomeResultEmptyOnError(out, gen) ==
    IF ~out.spawn \/ out.exit # 0 \/ ~out.decodable THEN OkResult(-1)
    ELSE OkResult(gen)

\* the body of query after the cache miss: output().await?, the status
\* check with bail!, parse_query_output(..)?
QueryOutcomeResult(out, gen) ==
    IF ~out.spawn THEN ErrResult("SpawnError", "")
    ELSE IF out.exit # 0 THEN ErrResult("QueryFailed", out.stderr)
    ELSE IF ~out.decodable THEN ErrResult("DecodeError", "")
    ELSE OkResult(gen)

\* LruCache: is there an entry for the key
CacheHas(cache, key) == \E k \in 1..Len(cache) : cache[k].key = key

\* LruCache: the entries other than the key's, order kept
CacheWithout(cache, key) == SelectSeq(cache, LAMBDA e : e.key # key)

\* LruCache: the entry of a key that has one
CacheEntry(cache, key) ==
    cache[CHOOSE k \in 1..Len(cache) : cache[k].key = key]

\* LruCache::get on a hit: the entry becomes the most recently used
LruGet(cache, key) == Append(CacheWithout(cache, key), CacheEntry(cache, key))

\* the result is not stored
LruPutDropped(cache, key, value) == cache

\* LruCache::put: the entry becomes the most recently used; a new key in a
\* full cache evicts the least recently used entry
LruPut(cache, key, value) ==
    LET entry == [key |-> key, value |-> value]
    IN IF CacheHas(cache, key) THEN Append(CacheWithout(cache, key), entry)
       ELSE IF Len(cache) >= CacheCapacity THEN Append(Tail(cache), entry)
       ELSE Append(cache, entry)

IdleCall ==
    [pc |-> "idle", q |-> "", result |-> NoResult, hit |-> FALSE,
     out |-> NoOutcome, fresh |-> FALSE, recent |-> FALSE, stale |-> FALSE,
     expired |-> FALSE, raced |-> FALSE, gen |-> -1]

\* BazelClient::new: an empty cache; the clock starts at 0
CacheInit ==
    /\ query_cache = <<>>
    /\ call = [c \in Callers |-> IdleCall]
    /\ now = 0
    /\ pkgGen = [p \in Packages |-> 0]
    /\ fetchedAt = [q \in Queries |-> NoFetch]
    /\ usedSince = [q \in Queries |-> {}]
    /\ nCalls = 0

\* the key has been used: it is the most recent, and one more expression
\* has been used since every other key's last use
Touch(used, key) ==
    [q \in Queries |-> IF q = key THEN {} ELSE used[q] \cup {key}]

\* query, lines 391-397 and the spawn: under the cache lock, a hit returns
\* the cached result; a miss starts the subprocess
QueryStart(c, q) ==
    /\ call[c].pc = "idle"
    /\ nCalls < MaxCalls
    /\ nCalls' = nCalls + 1
    /\ LET gen == pkgGen[AffectedPackage(q)]
           fetched == fetchedAt[q]
           ghost == [q |-> q, out |-> NoOutcome, raced |-> FALSE, gen |-> gen,
                     fresh |-> /\ fetched.at >= 0
                               /\ fetched.gen = gen
                               /\ now < fetched.at + CacheTtl,
                     recent |-> Cardinality(usedSince[q]) < CacheCapacity,
                     stale |-> fetched.at >= 0 /\ fetched.gen # gen,
                     expired |-> /\ fetched.at >= 0
                                 /\ now >= fetched.at + CacheTtl]
       IN IF CacheHas(query_cache, q)
          THEN /\ call' = [call EXCEPT ![c] = ghost @@
                              [pc |-> "returned", hit |-> TRUE,
                               result |->
                                   OkResult(CacheEntry(query_cache, q).value)]]
               /\ query_cache' = LruGet(query_cache, q)
               /\ usedSince' = Touch(usedSince, q)
          ELSE /\ call' = [call EXCEPT ![c] = ghost @@
                              [pc |-> "running", hit |-> FALSE,
                               result |-> NoResult]]
               /\ UNCHANGED <<query_cache, usedSince>>
    /\ UNCHANGED <<now, pkgGen, fetchedAt>>
    /\ UNCHANGED <<graphVars, buildVars, serverVars, frontVars, sessionVars,
                   extVars>>

\* query, lines 399-423: the subprocess has ended with an outcome; a
\* success is stored under the cache lock and returned, an error returns
QueryFinish(c, out) ==
    /\ call[c].pc = "running"
    /\ LET q == call[c].q
           gen == pkgGen[AffectedPackage(q)]
           result == QueryOutcomeResult(out, gen)
       IN /\ call' = [d \in Callers |->
                 IF d = c
                 THEN [call[c] EXCEPT !.pc = "returned", !.out = out,
                                      !.result = result]
                 ELSE IF /\ result.kind = "Ok"
                         /\ call[d].pc \in {"running", "returned"}
                         /\ call[d].q = q
                      THEN [call[d] EXCEPT !.raced = TRUE]
                      ELSE call[d]]
          /\ IF result.kind = "Ok"
             THEN /\ query_cache' = LruPut(query_cache, q, result.value)
                  /\ fetchedAt' = [fetchedAt EXCEPT
                                      ![q] = [at |-> now, gen |-> gen]]
                  /\ usedSince' = Touch(usedSince, q)
             ELSE UNCHANGED <<query_cache, fetchedAt, usedSince>>
    /\ UNCHANGED <<now, pkgGen, nCalls>>
    /\ UNCHANGED <<graphVars, buildVars, serverVars, frontVars, sessionVars,
                   extVars>>

\* the caller has consumed the result
QueryReturn(c) ==
    /\ call[c].pc = "returned"
    /\ call' = [call EXCEPT ![c] = IdleCall]
    /\ UNCHANGED <<query_cache, now, pkgGen, fetchedAt, usedSince, nCalls>>
    /\ UNCHANGED <<graphVars, buildVars, serverVars, frontVars, sessionVars,
                   extVars>>

\* buildWatcher.onDidChange: a file of the package has changed; the handler
\* re-parses the file and does not touch the query cache
FileChanged(pkg) ==
    /\ pkgGen[pkg] < MaxGen
    /\ pkgGen' = [pkgGen EXCEPT ![pkg] = @ + 1]
    /\ UNCHANGED <<query_cache, call, now, fetchedAt, usedSince, nCalls>>
    /\ UNCHANGED <<graphVars, buildVars, serverVars, frontVars, sessionVars,
                   extVars>>

\* time passes
Tick ==
    /\ now + TickSeconds <= MaxTime
    /\ now' = now + TickSeconds
    /\ UNCHANGED <<query_cache, call, pkgGen, fetchedAt, usedSince, nCalls>>
    /\ UNCHANGED <<graphVars, buildVars, serverVars, frontVars, sessionVars,
                   extVars>>

(***************************************************************************)
(* The claims about the cached query.                                      *)
(***************************************************************************)
\* the subprocess of a call has not produced a decoded result
FailedOutcome(out) == ~out.spawn \/ out.exit # 0 \/ ~out.decodable

C4_FileChangeInvalidatesEntry ==
    \A c \in Callers :
        ~(call[c].pc = "returned" /\ call[c].hit /\ call[c].stale)

\* C5 (as claimed): a query(Q) issued once the time-to-live has elapsed
\* since the entry's fetch never returns the cached entry.
C5_ExpiredEntryNeverReturned ==
    \A c \in Callers :
        ~(call[c].pc = "returned" /\ call[c].hit /\ call[c].expired)

\* C6: a query(Q) whose subprocess failed (spawn error, non-zero exit or
\* decode error) returns an error and stores nothing: unless another call
\* has stored Q's result meanwhile the cache has no entry for Q, and no
\* entry ever holds an empty result in place of a failure.
C6_FailedQueryIsNotCached ==
    /\ \A c \in Callers :
          (call[c].pc = "returned" /\ ~call[c].hit
              /\ FailedOutcome(call[c].out)) =>
                 /\ call[c].result.kind # "Ok"
                 /\ ~call[c].raced => ~CacheHas(query_cache, call[c].q)
    /\ \A k \in 1..Len(query_cache) : query_cache[k].value >= 0

\* C6 witness: a failed query(Q) has returned and the cache has no entry
\* for Q
C6_Witness ==
    \E c \in Callers :
        /\ call[c].pc = "returned" /\ ~call[c].hit
        /\ call[c].out.spawn /\ call[c].out.exit = 0
        /\ ~call[c].out.decodable
        /\ ~CacheHas(query_cache, call[c].q)

\* C7: a query whose subprocess exits with a non-zero status returns the
\* QueryFailed error that carries the tool's stderr text, never a result.
C7_NonZeroExitIsQueryFailed ==
    \A c \in Callers :
        (call[c].pc = "returned" /\ ~call[c].hit
            /\ call[c].out.spawn /\ call[c].out.exit # 0) =>
               call[c].result = ErrResult("QueryFailed", call[c].out.stderr)

\* C7 witness: the tool has exited non-zero with a stdout that would
\* decode, and the call has returned
C7_Witness ==
    \E c \in Callers :
        /\ call[c].pc = "returned" /\ ~call[c].hit
        /\ call[c].out.spawn /\ call[c].out.exit # 0
        /\ call[c].out.decodable
        /\ call[c].out.stderr = "ERROR: syntax error"

\* C32 (as claimed): while a subprocess of query(Q) is in flight, a second
\* query(Q) starts no subprocess of its own: no two callers are running a
\* subprocess for the same expression.
C32_NoDuplicateInFlightQuery ==
    \A c, d \in Callers :
        (c # d /\ call[c].pc = "running" /\ call[d].pc = "running") =>
            call[c].q # call[d].q

CacheNext ==
    \/ \E c \in Callers, q \in Queries : QueryStart(c, q)
    \/ \E c \in Callers, out \in Outcomes : QueryFinish(c, out)
    \/ \E c \in Callers : QueryReturn(c)
    \/ \E pkg \in Packages : FileChanged(pkg)
    \/ Tick

(***************************************************************************)
(* Build-Tool Client: the streamed build, BazelClient::build.              *)
(***************************************************************************)
\* how many build calls one behaviour starts
MaxBuilds == 2

\* how many lines the tool writes during one build
MaxRecords == 3

\* the lines the tool can write to the event stream: three well-formed
\* records and one that is no valid JSON
Lines == {"{started}", "{action_completed}", "{finished}", "{garbage"}

\* serde_json::from_str::<BuildEvent>(&line): the event, or an error
Decode(line) ==
    CASE line = "{started}" -> "Started"
      [] line = "{action_completed}" -> "ActionCompleted"
      [] line = "{finished}" -> "Finished"
      [] OTHER -> "DecodeError"

\* all sequences of lines up to a length
RECURSIVE StreamsUpTo(_)
StreamsUpTo(n) ==
    IF n = 0 THEN {<<>>}
    ELSE LET shorter == StreamsUpTo(n - 1)
         IN shorter \cup {Append(st, l) : st \in shorter, l \in Lines}

\* what the tool writes during one build
Streams == StreamsUpTo(MaxRecords)

\* the two event loops: the one of BazelClient::build and the one given
\* under "Streaming Build Events"
Loops == {"build", "streaming"}

IdleBuild ==
    [pc |-> "idle", loop |-> "none", stream |-> <<>>, exit |-> 0,
     emitted |-> 0, read |-> 0, delivered |-> <<>>, child |-> "none",
     cancel |-> FALSE, status |-> "none"]

BuildInit ==
    /\ build = IdleBuild
    /\ nBuilds = 0

\* a malformed line is answered with a default event
BuildDeliverDefaultOnError(delivered, line) ==
    IF Decode(line) # "DecodeError" THEN Append(delivered, Decode(line))
    ELSE Append(delivered, "Progress")

\* build, lines 441-443: if let Ok(event) = from_str(&line) then
\* handle_build_event(event); delivered lists the events handled
BuildDeliver(delivered, line) ==
    IF Decode(line) # "DecodeError" THEN Append(delivered, Decode(line))
    ELSE delivered

\* BuildResult { success: status.success() }
BuildStatus(exit) == IF exit = 0 THEN "Success" ELSE "Failed"

\* the build is started under the write guard of the Build Graph
BuildStartUnderWriteGuard(loop, stream, exit) ==
    /\ build.pc = "idle"
    /\ nBuilds < MaxBuilds
    /\ rw = [writer |-> FALSE, readers |-> 0]
    /\ rw' = [rw EXCEPT !.writer = TRUE]
    /\ nBuilds' = nBuilds + 1
    /\ build' = [IdleBuild EXCEPT !.pc = "reading", !.loop = loop,
                                  !.stream = stream, !.exit = exit,
                                  !.child = "running"]
    /\ UNCHANGED <<scan, job, diag, nScans, snap, lens>>
    /\ UNCHANGED <<graphVars, cacheVars, frontVars, sessionVars,
                   extVars>>

\* build, lines 427-437: the tool is spawned with a piped stdout; what it
\* is going to write and how it is going to exit is the tool's choice
BuildStart(loop, stream, exit) ==
    /\ build.pc = "idle"
    /\ nBuilds < MaxBuilds
    /\ nBuilds' = nBuilds + 1
    /\ build' = [IdleBuild EXCEPT !.pc = "reading", !.loop = loop,
                                  !.stream = stream, !.exit = exit,
                                  !.child = "running"]
    /\ UNCHANGED <<graphVars, cacheVars, serverVars, frontVars, sessionVars,
                   extVars>>

\* the tool writes its next line to stdout
ToolEmit ==
    /\ build.child = "running"
    /\ build.emitted < Len(build.stream)
    /\ build' = [build EXCEPT !.emitted = @ + 1]
    /\ UNCHANGED nBuilds
    /\ UNCHANGED <<graphVars, cacheVars, serverVars, frontVars, sessionVars,
                   extVars>>

\* the tool has written everything and exits, closing stdout
ToolExit ==
    /\ build.child = "running"
    /\ build.emitted = Len(build.stream)
    /\ build' = [build EXCEPT !.child = "exited"]
    /\ UNCHANGED nBuilds
    /\ UNCHANGED <<graphVars, cacheVars, serverVars, frontVars, sessionVars,
                   extVars>>

\* build, lines 439-444: next_line yields a line; a line that decodes is
\* handled, one that does not is skipped
BuildNextLine ==
    /\ build.pc = "reading"
    /\ build.loop = "build"
    /\ build.read < build.emitted
    /\ build' = [build EXCEPT
                    !.read = @ + 1,
                    !.delivered =
                        BuildDeliver(@, build.stream[build.read + 1])]
    /\ UNCHANGED nBuilds
    /\ UNCHANGED <<graphVars, cacheVars, serverVars, frontVars, sessionVars,
                   extVars>>

\* "Streaming Build Events": let event = from_str(&line)?; a line that
\* does not decode ends the loop and the call with the decode error
StreamNextLine ==
    /\ build.pc = "reading"
    /\ build.loop = "streaming"
    /\ build.read < build.emitted
    /\ LET line == build.stream[build.read + 1]
       IN build' = IF Decode(line) # "DecodeError"
                   THEN [build EXCEPT !.read = @ + 1,
                                      !.delivered = Append(@, Decode(line))]
                   ELSE [build EXCEPT !.read = @ + 1, !.pc = "resolved",
                                      !.status = "Error"]
    /\ UNCHANGED nBuilds
    /\ UNCHANGED <<graphVars, cacheVars, serverVars, frontVars, sessionVars,
                   extVars>>

\* next_line yields None: stdout is closed and every line has been read
BuildEndOfStream ==
    /\ build.pc = "reading"
    /\ build.child = "exited"
    /\ build.read = build.emitted
    /\ build' = [build EXCEPT !.pc = "waiting"]
    /\ UNCHANGED nBuilds
    /\ UNCHANGED <<graphVars, cacheVars, serverVars, frontVars, sessionVars,
                   extVars>>

\* build, lines 446-447: child.wait() returns the exit status
BuildWait ==
    /\ build.pc = "waiting"
    /\ build.child = "exited"
    /\ build' = [build EXCEPT !.pc = "resolved",
                              !.status = BuildStatus(build.exit)]
    /\ UNCHANGED nBuilds
    /\ UNCHANGED <<graphVars, cacheVars, serverVars, frontVars, sessionVars,
                   extVars>>

\* a cancellation request arrives for the call in flight; build takes no
\* cancellation signal, so nothing but the request itself changes
CancelRequest ==
    /\ build.pc \in {"reading", "waiting"}
    /\ ~build.cancel
    /\ build' = [build EXCEPT !.cancel = TRUE]
    /\ UNCHANGED nBuilds
    /\ UNCHANGED <<graphVars, cacheVars, serverVars, frontVars, sessionVars,
                   extVars>>

\* the caller has consumed the result
BuildReturn ==
    /\ build.pc = "resolved"
    /\ build' = IdleBuild
    /\ UNCHANGED nBuilds
    /\ UNCHANGED <<graphVars, cacheVars, serverVars, frontVars, sessionVars,
                   extVars>>

(***************************************************************************)
(* The claims about build/test/run.                                        *)
(***************************************************************************)
\* the events of the well-formed lines of a stream, in emission order
WellFormedEvents(stream) ==
    LET good == SelectSeq(stream, LAMBDA l : l # "{garbage")
    IN [k \in 1..Len(good) |->
           CASE good[k] = "{started}" -> "Started"
             [] good[k] = "{action_completed}" -> "ActionCompleted"
             [] good[k] = "{finished}" -> "Finished"]

\* C8 (as claimed): a call that received a cancellation request while in
\* flight never resolves as Failed or as a success (it resolves as
\* Cancelled).
C8_CancelledCallResolvesCancelled ==
    (build.pc = "resolved" /\ build.cancel) =>
        build.status \notin {"Failed", "Success"}

\* C9 (as claimed): a malformed record is skipped without aborting the
\* stream: every well-formed record is delivered whatever precedes it, and
\* the final status is the one the subprocess exit determines.
C9_MalformedRecordIsSkipped ==
    build.pc = "resolved" =>
        /\ build.delivered = WellFormedEvents(build.stream)
        /\ build.status = IF build.exit = 0 THEN "Success" ELSE "Failed"

BuildNext ==
    \/ \E loop \in Loops, stream \in Streams, exit \in {0, 1} :
          BuildStart(loop, stream, exit)
    \/ ToolEmit
    \/ ToolExit
    \/ BuildNextLine
    \/ StreamNextLine
    \/ BuildEndOfStream
    \/ BuildWait
    \/ CancelRequest
    \/ BuildReturn

(***************************************************************************)
(* Language server: the workspace scan spawned by initialize, which holds  *)
(* the write guard of build_graph, and code_lens, which reads under the    *)
(* read guard.                                                             *)
(***************************************************************************)
\* how many scans of the workspace one behaviour performs
MaxScans == 2

\* the order in which WalkDir yields the configuration files
PackageOrder == <<"a", "b">>

\* a statement the grammar does not accept: BuildParser::parse fails on it
BadStmt ==
    [kind |-> "syntax error", name |-> "none", srcs |-> <<>>, deps |-> <<>>]

\* the texts a configuration file can have on disk when it is scanned
ScanTexts == {<<>>, <<RuleX>>, <<RuleX, RuleY>>, <<RuleY, RuleX>>,
              <<RuleX, BadStmt>>}

\* BuildParser::parse(Rule::file, &content): the whole file is rejected
\* when one statement of it does not parse
ParseFails(text) == \E k \in 1..Len(text) : text[k] = BadStmt

\* the pest error of a rejected file; with_path is never called on it
ParseError == [kind |-> "ParseError", path |-> "none"]

\* tokio RwLock: one writer or any number of readers
FreeLock == [writer |-> FALSE, readers |-> 0]

IdleScan == [pc |-> "idle", result |-> "none"]

IdleJob == [pc |-> "none", rules |-> <<>>, i |-> 1, j |-> 1]

IdleLens ==
    [pc |-> "idle", path |-> NoPath, result |-> NoTarget, during |-> FALSE]

ServerInit ==
    /\ rw = FreeLock
    /\ scan = IdleScan
    /\ job = [p \in Packages |-> IdleJob]
    /\ diag = <<>>
    /\ nScans = 0
    /\ snap = [l \in Labels |-> NoTarget]
    /\ lens = IdleLens

\* a Target inserted under a label keeps the sources it had and adds the new
InsertTargetMergingSrcs(map, target) ==
    [map EXCEPT ![target.label] =
        [target EXCEPT !.srcs = map[target.label].srcs \o target.srcs]]

\* test rules are left out of the Targets map
InsertTargetSkippingTests(map, target) ==
    IF target.kind = "go_test" THEN map
    ELSE [map EXCEPT ![target.label] = target]

\* self.targets.insert(target.label.clone(), target)
InsertTarget(map, target) == [map EXCEPT ![target.label] = target]

\* BuildGraph::get_target_for_file: the Target of the first label the
\* file-to-labels index holds for the path
GetTargetForFile(path) ==
    IF file_to_targets[path] = <<>> THEN NoTarget
    ELSE targets[Head(file_to_targets[path])]

\* initialize: tokio::spawn of the scan task; initialize itself returns
ScanSpawn ==
    /\ scan.pc = "idle"
    /\ nScans < MaxScans
    /\ nScans' = nScans + 1
    /\ scan' = [pc |-> "waiting", result |-> "none"]
    /\ UNCHANGED <<rw, job, diag, snap, lens>>
    /\ UNCHANGED <<graphVars, cacheVars, buildVars, frontVars, sessionVars,
                   extVars>>

\* build_graph.write().await, then WalkDir collects the BUILD files
ScanAcquireWrite ==
    /\ scan.pc = "waiting"
    /\ rw = FreeLock
    /\ rw' = [rw EXCEPT !.writer = TRUE]
    /\ scan' = [scan EXCEPT !.pc = "parsing"]
    /\ job' = [p \in Packages |-> [IdleJob EXCEPT !.pc = "todo"]]
    /\ UNCHANGED <<diag, nScans, snap, lens>>
    /\ UNCHANGED <<graphVars, cacheVars, buildVars, frontVars, sessionVars,
                   extVars>>

\* par_iter: parse_build_file of one file reads and parses it; the text on
\* disk is free in the first scan and is the text last read afterwards
ScanParseFile(f, text) ==
    /\ scan.pc = "parsing"
    /\ job[f].pc = "todo"
    /\ text = fileText[f] \/ (nScans = 1 /\ nUpdates = 0)
    /\ fileText' = [fileText EXCEPT ![f] = text]
    /\ job' = [job EXCEPT ![f] =
                  IF ParseFails(text) THEN [IdleJob EXCEPT !.pc = "failed"]
                  ELSE IF text = <<>> THEN [IdleJob EXCEPT !.pc = "ok"]
                  ELSE [pc |-> "srcs", rules |-> text, i |-> 1, j |-> 1]]
    /\ UNCHANGED <<targets, file_to_targets, upd, nUpdates, look>>
    /\ UNCHANGED <<rw, scan, diag, nScans, snap, lens>>
    /\ UNCHANGED <<cacheVars, buildVars, frontVars, sessionVars,
                   extVars>>

\* for src in &target.srcs: file_to_targets.entry(src_path).or_insert.push
ScanPushSrc(f) ==
    /\ scan.pc = "parsing"
    /\ job[f].pc = "srcs"
    /\ LET rule == job[f].rules[job[f].i]
           path == SrcPath(f, rule.srcs[job[f].j])
           label == MakeLabel(f, rule.name)
       IN /\ file_to_targets' =
                 [file_to_targets EXCEPT ![path] = Append(@, label)]
          /\ job' = [job EXCEPT ![f] =
                        IF job[f].j < Len(rule.srcs)
                        THEN [job[f] EXCEPT !.j = job[f].j + 1]
                        ELSE [job[f] EXCEPT !.pc = "insert"]]
    /\ UNCHANGED <<fileText, targets, upd, nUpdates, look>>
    /\ UNCHANGED <<rw, scan, diag, nScans, snap, lens>>
    /\ UNCHANGED <<cacheVars, buildVars, frontVars, sessionVars,
                   extVars>>

\* self.targets.insert(label, target), then the next rule of the file
ScanInsertTarget(f) ==
    /\ scan.pc = "parsing"
    /\ job[f].pc = "insert"
    /\ targets' = InsertTarget(targets, MakeTarget(f, job[f].rules[job[f].i]))
    /\ job' = [job EXCEPT ![f] =
                  IF job[f].i < Len(job[f].rules)
                  THEN [job[f] EXCEPT !.pc = "srcs", !.i = job[f].i + 1,
                                      !.j = 1]
                  ELSE [job[f] EXCEPT !.pc = "ok"]]
    /\ UNCHANGED <<fileText, file_to_targets, upd, nUpdates, look>>
    /\ UNCHANGED <<rw, scan, diag, nScans, snap, lens>>
    /\ UNCHANGED <<cacheVars, buildVars, frontVars, sessionVars,
                   extVars>>

\* the warnings of the collected results, in the order of the files
RECURSIVE ScanWarnings(_)
ScanWarnings(files) ==
    IF files = <<>> THEN <<>>
    ELSE (IF job[Head(files)].pc = "failed" THEN <<ParseError>> ELSE <<>>)
         \o ScanWarnings(Tail(files))

\* for result in results: tracing::warn! on each Err; Ok(()); the task ends
\* and drops the write guard
ScanCollect ==
    /\ scan.pc = "parsing"
    /\ \A f \in Packages : job[f].pc \in {"ok", "failed"}
    /\ diag' = diag \o ScanWarnings(PackageOrder)
    /\ scan' = [pc |-> "idle", result |-> "Ok"]
    /\ rw' = [rw EXCEPT !.writer = FALSE]
    /\ job' = [p \in Packages |-> IdleJob]
    /\ snap' = IF nScans = 1 THEN targets ELSE snap
    /\ UNCHANGED <<nScans, lens>>
    /\ UNCHANGED <<graphVars, cacheVars, buildVars, frontVars, sessionVars,
                   extVars>>

\* code_lens of a source file arrives
LensRequest(path) ==
    /\ lens.pc = "idle"
    /\ lens' = [pc |-> "waiting", path |-> path, result |-> NoTarget,
                during |-> (build.child = "running")]
    /\ UNCHANGED <<rw, scan, job, diag, nScans, snap>>
    /\ UNCHANGED <<graphVars, cacheVars, buildVars, frontVars, sessionVars,
                   extVars>>

\* self.build_graph.read().await
LensAcquireRead ==
    /\ lens.pc = "waiting"
    /\ ~rw.writer
    /\ rw' = [rw EXCEPT !.readers = @ + 1]
    /\ lens' = [lens EXCEPT !.pc = "locked"]
    /\ UNCHANGED <<scan, job, diag, nScans, snap>>
    /\ UNCHANGED <<graphVars, cacheVars, buildVars, frontVars, sessionVars,
                   extVars>>

\* build_graph.get_target_for_file(&uri) under the read guard, which is
\* dropped when code_lens returns
LensLookup ==
    /\ lens.pc = "locked"
    /\ lens' = [lens EXCEPT !.pc = "done",
                            !.result = GetTargetForFile(lens.path)]
    /\ rw' = [rw EXCEPT !.readers = @ - 1]
    /\ UNCHANGED <<scan, job, diag, nScans, snap>>
    /\ UNCHANGED <<graphVars, cacheVars, buildVars, frontVars, sessionVars,
                   extVars>>

\* the editor has consumed the answer
LensReturn ==
    /\ lens.pc = "done"
    /\ lens' = IdleLens
    /\ UNCHANGED <<rw, scan, job, diag, nScans, snap>>
    /\ UNCHANGED <<graphVars, cacheVars, buildVars, frontVars, sessionVars,
                   extVars>>

ScanNext ==
    \/ ScanSpawn
    \/ ScanAcquireWrite
    \/ \E f \in Packages, text \in ScanTexts : ScanParseFile(f, text)
    \/ \E f \in Packages : ScanPushSrc(f)
    \/ \E f \in Packages : ScanInsertTarget(f)
    \/ ScanCollect

LensNext ==
    \/ \E path \in Paths : LensRequest(path)
    \/ LensAcquireRead
    \/ LensLookup
    \/ LensReturn

ServerNext == ScanNext \/ LensNext

(***************************************************************************)
(* Claims about the scan, the guards and the lookup.                       *)
(***************************************************************************)
\* is_test: the kinds of test rules
IsTestKind(kind) == kind = "go_test"

\* the indexed Targets of a package that list a source name
Claimants(pkg, s) ==
    {c \in Labels : /\ targets[c] # NoTarget
                    /\ c[1] = pkg
                    /\ s \in Range(targets[c].srcs)}

\* the scan has run to its end at least once and nothing else has written
AfterScan == scan.pc = "idle" /\ nScans >= 1 /\ nUpdates = 0

\* C11 (as claimed): while the workspace scan started by initialize is in
\* progress, a code lens lookup that has arrived can take its read guard and
\* complete; it does not have to wait for the scan to finish.
C11_LookupProceedsDuringScan ==
    (scan.pc = "parsing" /\ lens.pc = "waiting") => ENABLED LensAcquireRead

\* C12: while the build subprocess is running, a code lens lookup that has
\* arrived can take its read guard at once: the build holds no guard of the
\* Build Graph.
C12_LookupProceedsDuringBuild ==
    (build.child = "running" /\ lens.pc = "waiting") =>
        ENABLED LensAcquireRead

\* a lookup that arrived while the subprocess ran has completed, and the
\* subprocess is running still
C12_Witness ==
    /\ build.child = "running"
    /\ lens.pc = "done"
    /\ lens.during

\* C13 (as claimed): the Build Graph is held by readers and no writer or by
\* one writer and no reader, and the Targets map and the file-to-labels
\* index change only while a writer holds the write guard.
C13_MutationOnlyUnderWriteGuard ==
    /\ [](~(rw.writer /\ rw.readers > 0))
    /\ [][(targets' # targets \/ file_to_targets' # file_to_targets) =>
              rw.writer]_vars

\* C14 (as claimed): after a scan in which exactly one file failed to parse,
\* every Target of the other files is in both indices, nothing of the failed
\* file is indexed, the scan returned Ok, and there is exactly one
\* diagnostic, which names the failed file.
C14_OneFailureOneFileScopedDiagnostic ==
    (AfterScan /\ nScans = 1) =>
        \A bad \in Packages :
            (/\ ParseFails(fileText[bad])
             /\ \A f \in Packages \ {bad} : ~ParseFails(fileText[f])) =>
                /\ \A f \in Packages \ {bad} :
                      \A k \in 1..Len(fileText[f]) :
                          LET l == <<f, fileText[f][k].name>>
                          IN /\ targets[l] # NoTarget
                             /\ \A s \in Range(fileText[f][k].srcs) :
                                   l \in Range(file_to_targets[<<f, s>>])
                /\ \A l \in Labels : l[1] = bad =>
                      /\ targets[l] = NoTarget
                      /\ \A p \in Paths : l \notin Range(file_to_targets[p])
                /\ scan.result = "Ok"
                /\ Len(diag) = 1
                /\ diag[1].path = bad

\* C15: a second scan of the unchanged workspace leaves the Targets map, so
\* the label set and each Target's kind, sources and dependencies, as the
\* first scan left it, in whatever order the files were parsed.
C15_SecondScanLeavesTargetsUnchanged ==
    (AfterScan /\ nScans >= 2) => targets = snap

\* two scans have run and the graph holds Targets of both packages
C15_Witness ==
    /\ AfterScan
    /\ scan.pc = "idle"
    /\ nScans = 2
    /\ targets[<<"a", "y">>] # NoTarget
    /\ targets[<<"b", "x">>] # NoTarget

\* C16: after a scan, for every indexed Target T and every source s of T,
\* the lookup of s resolved against T's package returns a Target of that
\* package that declares s, and T itself when T alone claims s.
C16_SourceResolvesToDeclaringTarget ==
    AfterScan =>
        \A l \in Labels : targets[l] # NoTarget =>
            \A k \in 1..Len(targets[l].srcs) :
                LET s == targets[l].srcs[k]
                    found == GetTargetForFile(<<l[1], s>>)
                IN /\ found # NoTarget
                   /\ found.label[1] = l[1]
                   /\ s \in Range(found.srcs)
                   /\ Claimants(l[1], s) = {l} => found = targets[l]

\* a code lens lookup of a/n.go, which only //a:y declares, has returned
\* //a:y with both its sources
C16_Witness ==
    /\ AfterScan
    /\ lens.pc = "done"
    /\ lens.path = <<"a", "n.go">>
    /\ lens.result.label = <<"a", "y">>
    /\ lens.result.srcs = <<"m.go", "n.go">>

\* C17 (as claimed): when several Targets claim a file and one of them is
\* not a test, the lookup returns a Target that is not a test.
C17_LookupPrefersNonTest ==
    AfterScan =>
        \A p \in Packages, s \in SrcNames :
            (\E c \in Claimants(p, s) : ~IsTestKind(targets[c].kind)) =>
                ~IsTestKind(GetTargetForFile(<<p, s>>).kind)

(***************************************************************************)
(* BUILD file parser: the pairs pest produces for build.pest, and          *)
(* BuildFileParser::parse, parse_statement and parse_value over them.      *)
(***************************************************************************)
\* the packages, call names, names and dependency lists of the parsed files
ParsePackages == {"test", "app", "lib/util"}

CallNames == {"go_binary", "go_test", "java_library", "filegroup",
              "my_macro"}

RuleNames == {"server", "lib", "x_test"}

DepLists == {<<>>, <<":lib">>, <<"//app:lib">>, <<":lib", "//app:lib">>,
             <<"//test:server", ":lib">>}

\* how the name is passed: name = "N", "N" as the only positional one,
\* not at all, or name = N with N an identifier
NameForms == {"named", "positional", "missing", "identifier"}

\* a pest Pair: its rule, the text it spans and its inner pairs
Pair(rule, str, inner) == [rule |-> rule, str |-> str, inner |-> inner]

\* the texts of some pairs, joined by a separator
RECURSIVE JoinStr(_, _)
JoinStr(pairs, sep) ==
    IF pairs = <<>> THEN ""
    ELSE IF Len(pairs) = 1 THEN pairs[1].str
    ELSE pairs[1].str \o sep \o JoinStr(Tail(pairs), sep)

\* identifier = @{ ... }
IdentifierPair(id) == Pair("identifier", id, <<>>)

\* string = @{ "\"" ~ ... ~ "\"" }: the quotes are part of the pair's text
StringPair(text) == Pair("string", "\"" \o text \o "\"", <<>>)

\* list_item = { string | target_ref | ... }
ListItemPair(p) == Pair("list_item", p.str, <<p>>)

\* list = { "[" ~ (list_item ~ ("," ~ list_item)*)? ~ ","? ~ "]" }
ListPair(items) ==
    LET inner == [k \in 1..Len(items) |-> ListItemPair(items[k])]
    IN Pair("list", "[" \o JoinStr(inner, ", ") \o "]", inner)

\* value = { string | number | boolean | list | ... }: a pair of its own
\* around the pair of the alternative taken
ValuePair(p) == Pair("value", p.str, <<p>>)

\* argument = { (identifier ~ "=" ~ value) | value }, the named form
NamedArgument(id, p) ==
    Pair("argument", id \o " = " \o p.str, <<IdentifierPair(id), ValuePair(p)>>)

\* argument = { (identifier ~ "=" ~ value) | value }, the positional form
PositionalArgument(p) == Pair("argument", p.str, <<ValuePair(p)>>)

\* function_call = { identifier ~ "(" ~ (argument ~ ...)? ~ ","? ~ ")" }
FunctionCallPair(kind, args) ==
    Pair("function_call", kind \o "(" \o JoinStr(args, ", ") \o ")",
         <<IdentifierPair(kind)>> \o args)

\* statement = { load_stmt | function_call | assignment }
StatementPair(p) == Pair("statement", p.str, <<p>>)

\* file = { SOI ~ statement* ~ EOI }: BuildParser::parse(Rule::file, ..)
\* yields the one pair of the file, its statements and EOI inside it
FilePairs(stmts) ==
    <<Pair("file", JoinStr(stmts, " "), stmts \o <<Pair("EOI", "", <<>>)>>)>>

\* the rule invocation kind(name = "N", deps = [...]) as pest parses it
Invocation(kind, name, form, deps) ==
    FunctionCallPair(kind,
        (IF form = "named" THEN <<NamedArgument("name", StringPair(name))>>
         ELSE IF form = "positional"
         THEN <<PositionalArgument(StringPair(name))>>
         ELSE IF form = "identifier"
         THEN <<NamedArgument("name", IdentifierPair(name))>>
         ELSE <<>>)
        \o <<NamedArgument("deps",
                ListPair([k \in 1..Len(deps) |-> StringPair(deps[k])]))>>)

\* enum Value: the variant, its text and, of a List, its items
Value(tag, str, items) == [tag |-> tag, str |-> str, items |-> items]

\* no entry under an attribute name
NoValue == Value("None", "", <<>>)

\* the attribute names the invocations above use
AttrNames == {"name", "deps"}

\* Ok(None) of parse_statement
NoRule == [name |-> "none", kind |-> "none",
           attributes |-> [a \in AttrNames |-> NoValue]]

\* BuildFileParser::parse_value, the arms without inner pairs: string,
\* target_ref, identifier and the fallback arm (the files parsed here hold
\* no number and no boolean)
ParseItem(pair) ==
    IF pair.rule = "string"
    THEN Value("String", SubSeq(pair.str, 2, Len(pair.str) - 1), <<>>)
    ELSE IF pair.rule = "target_ref" THEN Value("TargetRef", pair.str, <<>>)
    ELSE IF pair.rule = "identifier" THEN Value("Identifier", pair.str, <<>>)
    ELSE Value("String", pair.str, <<>>)

\* BuildFileParser::parse_value: the arm is chosen by the rule of the pair
\* it is handed; the list arm descends into each list_item
ParseValue(pair) ==
    IF pair.rule = "list"
    THEN Value("List", "",
               [k \in 1..Len(pair.inner) |->
                   ParseItem(pair.inner[k].inner[1])])
    ELSE ParseItem(pair)

\* every call is taken for a rule
IsBazelRuleAnyCall(kind) == TRUE

\* is_bazel_rule: the allow-list of call names
IsBazelRule(kind) ==
    kind \in {"cc_binary", "go_binary", "java_binary", "py_binary",
              "rust_binary", "cc_library", "go_library", "java_library",
              "py_library", "rust_library", "cc_test", "go_test",
              "java_test", "py_test", "rust_test", "scio_java_test",
              "scio_java_junit5_test", "scio_go_test", "proto_library",
              "java_proto_library", "go_proto_library", "filegroup",
              "genrule", "test_suite", "package"}

\* parse_statement, the loop over the arguments: two inner pairs are a
\* named argument, one inner pair is stored under "name"
RECURSIVE ParseArguments(_, _)
ParseArguments(args, attributes) ==
    IF args = <<>> THEN attributes
    ELSE LET inner == Head(args).inner
             next == IF Len(inner) = 2
                     THEN [attributes EXCEPT ![inner[1].str] =
                                                 ParseValue(inner[2])]
                     ELSE IF Len(inner) = 1
                     THEN [attributes EXCEPT !["name"] = ParseValue(inner[1])]
                     ELSE attributes
         IN ParseArguments(Tail(args), next)

\* format!("//{}:{}", self.package_name, n)
FormatLabel(pkg, n) == "//" \o pkg \o ":" \o n

\* BuildFileParser::parse_statement
ParseStatement(pkg, pair) ==
    IF pair.rule # "function_call" THEN NoRule
    ELSE IF ~IsBazelRule(pair.inner[1].str) THEN NoRule
    ELSE LET attributes == ParseArguments(Tail(pair.inner),
                               [a \in AttrNames |-> NoValue])
         IN IF attributes["name"].tag # "String" THEN NoRule
            ELSE [name |-> FormatLabel(pkg, attributes["name"].str),
                  kind |-> pair.inner[1].str,
                  attributes |-> attributes]

\* BuildFileParser::parse: parse_statement on each pair of the parse
\* result, the rules it returns collected
RECURSIVE ParseRules(_, _)
ParseRules(pkg, pairs) ==
    IF pairs = <<>> THEN <<>>
    ELSE (IF ParseStatement(pkg, Head(pairs)) = NoRule THEN <<>>
          ELSE <<ParseStatement(pkg, Head(pairs))>>)
         \o ParseRules(pkg, Tail(pairs))

(***************************************************************************)
(* handle_did_open: a BUILD file of several statements is parsed.          *)
(***************************************************************************)
\* the statements of an opened file: a named allow-listed rule, a call of
\* a name off the allow-list, an allow-listed rule without a name, one
\* whose name is an identifier and not a string, and text the grammar does
\* not accept
OpenStatements == {"rule", "macro", "nameless", "unresolved", "malformed"}

\* the most statements of an opened file
MaxStatements == 3

\* the texts of an opened file
OpenTexts ==
    UNION {[1..n -> OpenStatements] : n \in 1..MaxStatements}

\* the pair pest produces for a statement the grammar accepts
OpenStatementPair(s) ==
    StatementPair(
        IF s = "rule" THEN Invocation("go_binary", "server", "named", <<>>)
        ELSE IF s = "macro"
        THEN Invocation("my_macro", "server", "named", <<>>)
        ELSE IF s = "nameless"
        THEN Invocation("go_test", "server", "missing", <<>>)
        ELSE Invocation("go_test", "server", "identifier", <<>>))

\* no pest error
NoError == [kind |-> "none", line |-> 0]

\* BuildParser::parse(Rule::file, content): file = { SOI ~ statement* ~
\* EOI } matches the whole text or fails at the first position it cannot
\* go on from
PestParse(text) ==
    LET bad == {k \in 1..Len(text) : text[k] = "malformed"}
    IN IF bad # {}
       THEN [status |-> "Err", pairs |-> <<>>,
             error |-> [kind |-> "ParseError",
                        line |-> CHOOSE k \in bad : \A m \in bad : k <= m]]
       ELSE [status |-> "Ok",
             pairs |-> FilePairs([k \in 1..Len(text) |->
                                     OpenStatementPair(text[k])]),
             error |-> NoError]

\* BuildFileParser::parse: the ? returns the pest error; otherwise the
\* rules of the pairs
BuildFileParse(pkg, text) ==
    LET pest == PestParse(text)
    IN IF pest.status = "Err"
       THEN [status |-> "Err", rules |-> <<>>, error |-> pest.error]
       ELSE [status |-> "Ok", rules |-> ParseRules(pkg, pest.pairs),
             error |-> NoError]

\* handle_did_open, Err(e) => send_diagnostic(uri, e); on Ok the
\* diagnostics are those of validate_rules, which is handed the rules only
DidOpenDiagnostics(result) ==
    IF result.status = "Err" THEN <<result.error>> ELSE <<>>

NoParsed ==
    [pkg |-> "none", kind |-> "none", name |-> "none", form |-> "none",
     deps |-> <<>>, rules |-> <<>>, stmt |-> NoRule, depsValue |-> NoValue]

\* one file of package pkg holding one rule invocation is parsed: rules is
\* what BuildFileParser::parse returns for the file, stmt what
\* parse_statement returns for the invocation's pair, depsValue what
\* parse_value returns for the pair of the deps list
ParseFile(pkg, kind, name, form, deps) ==
    /\ parsed = NoParsed
    /\ parsed' =
          [pkg |-> pkg, kind |-> kind, name |-> name, form |-> form,
           deps |-> deps,
           rules |-> ParseRules(pkg,
               FilePairs(<<StatementPair(
                   Invocation(kind, name, form, deps))>>)),
           stmt |-> ParseStatement(pkg, Invocation(kind, name, form, deps)),
           depsValue |-> ParseValue(
               ListPair([k \in 1..Len(deps) |-> StringPair(deps[k])]))]
    /\ UNCHANGED def
    /\ UNCHANGED <<graphVars, cacheVars, buildVars, serverVars,
                   sessionVars,
                   extVars>>

\* the rules have been consumed
ParseReturn ==
    /\ parsed # NoParsed
    /\ parsed' = NoParsed
    /\ UNCHANGED def
    /\ UNCHANGED <<graphVars, cacheVars, buildVars, serverVars,
                   sessionVars,
                   extVars>>

NoOpened ==
    [pkg |-> "none", text |-> <<>>, status |-> "none", rules |-> <<>>,
     added |-> <<>>, diagnostics |-> <<>>]

\* handle_did_open of a BUILD file of package pkg: the text is parsed, each
\* rule is handed to add_target, and the diagnostics are sent
DidOpen(pkg, text) ==
    /\ opened = NoOpened
    /\ LET result == BuildFileParse(pkg, text)
       IN opened' = [pkg |-> pkg, text |-> text, status |-> result.status,
                     rules |-> result.rules,
                     added |-> [k \in 1..Len(result.rules) |->
                                   result.rules[k].name],
                     diagnostics |-> DidOpenDiagnostics(result)]
    /\ UNCHANGED <<walked, notes, tree>>
    /\ UNCHANGED <<graphVars, cacheVars, buildVars, serverVars, frontVars,
                   adapterVars,
                   extVars>>

\* the notification has been handled
DidOpenReturn ==
    /\ opened # NoOpened
    /\ opened' = NoOpened
    /\ UNCHANGED <<walked, notes, tree>>
    /\ UNCHANGED <<graphVars, cacheVars, buildVars, serverVars, frontVars,
                   adapterVars,
                   extVars>>

ParserNext ==
    \/ \E pkg \in ParsePackages, kind \in CallNames, name \in RuleNames,
          form \in NameForms, deps \in DepLists :
           ParseFile(pkg, kind, name, form, deps)
    \/ ParseReturn

OpenNext ==
    \/ \E pkg \in ParsePackages, text \in OpenTexts : DidOpen(pkg, text)
    \/ DidOpenReturn

\* C18 (as claimed): a file of package P holding exactly one allow-listed
\* rule invocation with name argument N yields exactly one rule, the one
\* of that invocation, labelled //P:N, whose kind is the call name.
C18_OneInvocationYieldsOneTarget ==
    (/\ parsed.pkg # "none"
     /\ IsBazelRule(parsed.kind)
     /\ parsed.form \in {"named", "positional"}) =>
        /\ parsed.stmt.name = "//" \o parsed.pkg \o ":" \o parsed.name
        /\ parsed.stmt.kind = parsed.kind
        /\ parsed.rules = <<parsed.stmt>>

\* a dependency entry in its package-qualified form
Qualified(pkg, dep) ==
    IF SubSeq(dep, 1, 1) = ":" THEN "//" \o pkg \o dep ELSE dep

\* C19 (as claimed): the dependency entries of a rule of package P are
\* stored package-qualified: ":lib" as //P:lib, an entry that is qualified
\* already as written.
C19_RelativeDepsAreQualified ==
    parsed.pkg # "none" =>
        /\ parsed.depsValue.tag = "List"
        /\ Len(parsed.depsValue.items) = Len(parsed.deps)
        /\ \A k \in 1..Len(parsed.deps) :
              parsed.depsValue.items[k].str =
                  Qualified(parsed.pkg, parsed.deps[k])

\* C27 (as claimed): parsing a text whose k-th statement is malformed does
\* not abort: it succeeds, keeps the named allow-listed rules before and
\* after that statement, and gives one diagnostic at the statement's
\* position.
C27_ParseRecoversAtStatementBoundary ==
    (opened.pkg # "none" /\ \E k \in 1..Len(opened.text) :
                               opened.text[k] = "malformed") =>
        /\ opened.status = "Ok"
        /\ Len(opened.rules) =
              Cardinality({k \in 1..Len(opened.text) :
                              opened.text[k] = "rule"})
        /\ \E d \in 1..Len(opened.diagnostics) :
              opened.text[opened.diagnostics[d].line] = "malformed"

\* C28 (as claimed): a file the grammar accepts that holds an allow-listed
\* invocation without a name argument, or with a name argument that is
\* not a string, gets a diagnostic, and the invocation gives no rule.
C28_NamelessInvocationIsDiagnosed ==
    (/\ opened.pkg # "none"
     /\ opened.status = "Ok"
     /\ \E k \in 1..Len(opened.text) :
           opened.text[k] \in {"nameless", "unresolved"}) =>
        /\ opened.diagnostics # <<>>
        /\ Len(opened.rules) <=
              Cardinality({k \in 1..Len(opened.text) :
                              opened.text[k] = "rule"})

\* C29: a call becomes a rule only if its call name is on the allow-list;
\* a call of any other name gives no rule, from parse_statement or from
\* parse.
C29_OnlyAllowListedCallsBecomeTargets ==
    /\ parsed.stmt # NoRule =>
          parsed.kind \in {"go_binary", "go_test", "java_library",
                           "filegroup"}
    /\ parsed.kind = "my_macro" =>
          (parsed.stmt = NoRule /\ parsed.rules = <<>>)

\* parse_statement has answered a named call of my_macro with Ok(None)
C29_Witness ==
    /\ parsed.pkg = "app"
    /\ parsed.kind = "my_macro"
    /\ parsed.form = "named"
    /\ parsed.name = "lib"
    /\ parsed.stmt = NoRule

(***************************************************************************)
(* BazelLanguageServer::goto_definition.                                   *)
(***************************************************************************)
\* what the text at the requested position can be: a label, or no label
DefTexts == Labels \cup {NoLabel}

IdleDef ==
    [pc |-> "idle", text |-> NoLabel, present |-> FALSE, result |-> "none",
     adapter |-> 0]

FrontInit ==
    /\ parsed = NoParsed
    /\ def = IdleDef

\* extract_bazel_target: the label the text at the position names, if any
ExtractBazelTarget(text) == text

\* resolve_bazel_target: the declared location of the Target the Build
\* Graph holds under the label, if it holds one
ResolveBazelTarget(ref) ==
    IF targets[ref] # NoTarget THEN targets[ref].location ELSE "none"

\* goto_definition arrives for a position whose text is given
DefRequest(text) ==
    /\ def.pc = "idle"
    /\ def' = [IdleDef EXCEPT !.pc = "fast", !.text = text]
    /\ UNCHANGED parsed
    /\ UNCHANGED <<graphVars, cacheVars, buildVars, serverVars,
                   sessionVars,
                   extVars>>

\* a label the Build Graph does not hold is answered with nothing
DefFastPathEmptyForUnknownLabel ==
    /\ def.pc = "fast"
    /\ LET ref == ExtractBazelTarget(def.text)
           found == ref # NoLabel /\ ResolveBazelTarget(ref) # "none"
       IN def' = IF found
                 THEN [def EXCEPT !.pc = "done", !.present = TRUE,
                                  !.result = ResolveBazelTarget(ref)]
                 ELSE IF ref # NoLabel
                 THEN [def EXCEPT !.pc = "done", !.result = "none"]
                 ELSE [def EXCEPT !.pc = "delegate"]
    /\ UNCHANGED parsed
    /\ UNCHANGED <<graphVars, cacheVars, buildVars, serverVars,
                   sessionVars, extVars>>

\* the language handler is asked first, the Build Graph afterwards
DefFastPathAfterProvider ==
    /\ def.pc = "fast"
    /\ LET ref == ExtractBazelTarget(def.text)
           found == ref # NoLabel /\ ResolveBazelTarget(ref) # "none"
       IN def' = IF found
                 THEN [def EXCEPT !.pc = "done", !.present = TRUE,
                                  !.adapter = @ + 1,
                                  !.result = ResolveBazelTarget(ref)]
                 ELSE [def EXCEPT !.pc = "delegate"]
    /\ UNCHANGED parsed
    /\ UNCHANGED <<graphVars, cacheVars, buildVars, serverVars,
                   sessionVars,
                   extVars>>

\* the fast path: if extract_bazel_target and resolve_bazel_target both
\* give Some, return Ok(Some(Scalar(location)))
DefFastPath ==
    /\ def.pc = "fast"
    /\ LET ref == ExtractBazelTarget(def.text)
           found == ref # NoLabel /\ ResolveBazelTarget(ref) # "none"
       IN def' = IF found
                 THEN [def EXCEPT !.pc = "done", !.present = TRUE,
                                  !.result = ResolveBazelTarget(ref)]
                 ELSE [def EXCEPT !.pc = "delegate"]
    /\ UNCHANGED parsed
    /\ UNCHANGED <<graphVars, cacheVars, buildVars, serverVars,
                   sessionVars,
                   extVars>>

\* self.language_coordinator.goto_definition(uri, position).await
DefDelegate ==
    /\ def.pc = "delegate"
    /\ def' = [def EXCEPT !.pc = "done", !.adapter = @ + 1,
                          !.result = "from the language handler"]
    /\ UNCHANGED parsed
    /\ UNCHANGED <<graphVars, cacheVars, buildVars, serverVars,
                   sessionVars,
                   extVars>>

\* the editor has consumed the answer
DefReturn ==
    /\ def.pc = "done"
    /\ def' = IdleDef
    /\ UNCHANGED parsed
    /\ UNCHANGED <<graphVars, cacheVars, buildVars, serverVars,
                   sessionVars,
                   extVars>>

DefNext ==
    \/ \E text \in DefTexts : DefRequest(text)
    \/ DefFastPath
    \/ DefDelegate
    \/ DefReturn

C39_UnknownLabelFallsThrough ==
    (def.pc = "done" /\ def.text # NoLabel /\ ~def.present) =>
        /\ def.adapter = 1
        /\ def.result = "from the language handler"

\* a request on //b:y, which the graph does not hold, has been answered by
\* the language handler
C39_Witness ==
    /\ def.pc = "done"
    /\ def.text = <<"b", "y">>
    /\ ~def.present
    /\ def.adapter = 1
    /\ def.result = "from the language handler"

FrontNext == ParserNext \/ OpenNext \/ DefNext

\* the scan with per-file updates of a/BUILD beside it
LockNext ==
    \/ ScanNext
    \/ UpdateStart("a", <<RuleXn>>)
    \/ UpdatePushSrc
    \/ UpdateInsertTarget
    \/ UpdateReturn

\* one short build with the code lens lookups beside it
LensBuildNext ==
    \/ \E loop \in Loops : BuildStart(loop, <<"{started}">>, 0)
    \/ ToolEmit
    \/ ToolExit
    \/ BuildNextLine
    \/ StreamNextLine
    \/ BuildEndOfStream
    \/ BuildWait
    \/ CancelRequest
    \/ BuildReturn
    \/ LensNext

\* the scan with goto_definition beside it
DefSpecNext == ScanNext \/ DefNext

(***************************************************************************)
(* Language Coordinator: the registry of per-language proxies, each with   *)
(* its own engine process, and GoProxy::goto_definition.                   *)
(***************************************************************************)
\* the languages of the documents a request can come from
Languages == {"go", "java", "proto"}

\* the languages the registry holds a provider for
Adapters == {"go", "java"}

\* the requests a proxy takes
RequestKinds == {"definition", "completion"}

\* the capabilities of each adapter, of the set {definition, completion}
Capabilities(l) == IF l = "go" THEN {"definition", "completion"}
                   ELSE {"definition"}

\* what the import at the position can be: one into the monorepo whose path
\* exists under the workspace root, one whose path does not, one of another
\* module, or no import at all
ImportKinds == {"own, exists", "own, missing", "foreign", "none"}

\* what the engine can answer to a request it has taken
EngineAnswers == {"location", "none"}

IdleReq ==
    [pc |-> "idle", kind |-> "none", asked |-> FALSE, answer |-> "none",
     fallback |-> FALSE, result |-> "none", status |-> "none",
     cause |-> "-"]

AdapterInit ==
    /\ engine = [l \in Adapters |-> "none"]
    /\ areq = [l \in Languages |-> IdleReq]
    /\ failed = {}
    /\ requested = {}

\* every engine is a child of one supervisor and goes down with it
CrashEffectShared(eng, l) == [a \in Adapters |-> "dead"]

\* language_servers holds one proxy per language, each with a client of its
\* own: the exit of one engine leaves the others as they are
CrashEffect(eng, l) == [eng EXCEPT ![l] = "dead"]

\* initializeProviders constructs every provider, and the provider's
\* constructor starts its engine (initializeGopls, GoProxy::start: spawn)
ProviderStart(l) ==
    /\ engine[l] = "none"
    /\ engine' = [engine EXCEPT ![l] = "running"]
    /\ UNCHANGED <<areq, failed, requested>>
    /\ UNCHANGED <<graphVars, cacheVars, buildVars, serverVars, frontVars,
                   walkVars,
                   extVars>>

\* the engine process of one language exits or breaks the protocol
EngineCrash(l) ==
    /\ engine[l] = "running"
    /\ engine' = CrashEffect(engine, l)
    /\ failed' = failed \cup {l}
    /\ UNCHANGED <<areq, requested>>
    /\ UNCHANGED <<graphVars, cacheVars, buildVars, serverVars, frontVars,
                   walkVars,
                   extVars>>

\* a definition or completion request for a document of language l arrives
CoordRequest(l, kind) ==
    /\ areq[l].pc = "idle"
    /\ areq' = [areq EXCEPT ![l] = [IdleReq EXCEPT !.pc = "dispatch",
                                                   !.kind = kind]]
    /\ requested' = requested \cup {l}
    /\ UNCHANGED <<engine, failed>>
    /\ UNCHANGED <<graphVars, cacheVars, buildVars, serverVars, frontVars,
                   walkVars,
                   extVars>>

\* a request for a language without a provider is an error
CoordDispatchErrorWithoutProvider(l) ==
    /\ areq[l].pc = "dispatch"
    /\ areq' = [areq EXCEPT ![l] =
                  IF l \notin Adapters
                  THEN [@ EXCEPT !.pc = "done", !.result = "none",
                                 !.status = "Error"]
                  ELSE IF areq[l].kind \notin Capabilities(l)
                  THEN [@ EXCEPT !.pc = "done", !.result = "empty",
                                 !.status = "Ok"]
                  ELSE [@ EXCEPT !.pc = "engine"]]
    /\ UNCHANGED <<engine, failed, requested>>
    /\ UNCHANGED <<graphVars, cacheVars, buildVars, serverVars, frontVars,
                   walkVars,
                   extVars>>

\* provideDefinition: getProviderForDocument; if (!provider) return [];
\* a request the adapter has no capability for is answered empty as well
CoordDispatch(l) ==
    /\ areq[l].pc = "dispatch"
    /\ areq' = [areq EXCEPT ![l] =
                  IF l \notin Adapters \/ areq[l].kind \notin Capabilities(l)
                  THEN [@ EXCEPT !.pc = "done", !.result = "empty",
                                 !.status = "Ok"]
                  ELSE [@ EXCEPT !.pc = "engine"]]
    /\ UNCHANGED <<engine, failed, requested>>
    /\ UNCHANGED <<graphVars, cacheVars, buildVars, serverVars, frontVars,
                   walkVars,
                   extVars>>

\* the fallback is consulted whatever the engine has answered
ProxyQueryEngineThenFallback(l, answer) ==
    /\ areq[l].pc = "engine"
    /\ areq' = [areq EXCEPT ![l] =
                  IF engine[l] # "running"
                  THEN [@ EXCEPT !.pc = "done", !.status = "Error",
                                 !.cause = engine[l]]
                  ELSE IF areq[l].kind = "definition"
                  THEN [@ EXCEPT !.pc = "fallback", !.asked = TRUE,
                                 !.answer = answer]
                  ELSE [@ EXCEPT !.pc = "done", !.asked = TRUE,
                                 !.answer = answer, !.status = "Ok",
                                 !.result = IF answer = "none" THEN "empty"
                                            ELSE "from the engine"]]
    /\ UNCHANGED <<engine, failed, requested>>
    /\ UNCHANGED <<graphVars, cacheVars, buildVars, serverVars, frontVars,
                   walkVars,
                   extVars>>

\* GoProxy::goto_definition, "First try gopls": query_gopls(..).await? is
\* an Err when the engine does not answer; Some(location) is returned as
\* it is; on None the request goes on to the fallback (a completion has
\* none)
ProxyQueryEngine(l, answer) ==
    /\ areq[l].pc = "engine"
    /\ areq' = [areq EXCEPT ![l] =
                  IF engine[l] # "running"
                  THEN [@ EXCEPT !.pc = "done", !.status = "Error",
                                 !.cause = engine[l]]
                  ELSE IF answer = "none" /\ areq[l].kind = "definition"
                  THEN [@ EXCEPT !.pc = "fallback", !.asked = TRUE,
                                 !.answer = answer]
                  ELSE [@ EXCEPT !.pc = "done", !.asked = TRUE,
                                 !.answer = answer, !.status = "Ok",
                                 !.result = IF answer = "none" THEN "empty"
                                            ELSE "from the engine"]]
    /\ UNCHANGED <<engine, failed, requested>>
    /\ UNCHANGED <<graphVars, cacheVars, buildVars, serverVars, frontVars,
                   walkVars,
                   extVars>>

\* GoProxy::goto_definition, "Fall back to Bazel-aware resolution": the
\* import at the position, stripped of the monorepo prefix and joined to
\* the workspace root, is the answer if that path exists
ProxyFallback(l, import) ==
    /\ areq[l].pc = "fallback"
    /\ areq' = [areq EXCEPT ![l] =
                  [@ EXCEPT !.pc = "done", !.fallback = TRUE,
                            !.status = "Ok",
                            !.result = IF import = "own, exists"
                                       THEN "workspace path"
                                       ELSE "empty"]]
    /\ UNCHANGED <<engine, failed, requested>>
    /\ UNCHANGED <<graphVars, cacheVars, buildVars, serverVars, frontVars,
                   walkVars,
                   extVars>>

\* the editor has consumed the answer
CoordReturn(l) ==
    /\ areq[l].pc = "done"
    /\ areq' = [areq EXCEPT ![l] = IdleReq]
    /\ UNCHANGED <<engine, failed, requested>>
    /\ UNCHANGED <<graphVars, cacheVars, buildVars, serverVars, frontVars,
                   walkVars,
                   extVars>>

AdapterNext ==
    \/ \E l \in Adapters : ProviderStart(l)
    \/ \E l \in Adapters : EngineCrash(l)
    \/ \E l \in Languages, kind \in RequestKinds : CoordRequest(l, kind)
    \/ \E l \in Languages : CoordDispatch(l)
    \/ \E l \in Adapters, answer \in EngineAnswers : ProxyQueryEngine(l, answer)
    \/ \E l \in Adapters, import \in ImportKinds : ProxyFallback(l, import)
    \/ \E l \in Languages : CoordReturn(l)

\* C21: the import-prefix fallback of a definition request is consulted
\* only after the engine has been asked and has answered nothing; when the
\* engine answers with a location, that location is the result and the
\* fallback is not consulted.
C21_FallbackOnlyAfterEngineNone ==
    \A l \in Adapters :
        /\ (areq[l].pc = "fallback" \/ areq[l].fallback) =>
              (areq[l].asked /\ areq[l].answer = "none")
        /\ (areq[l].pc = "done" /\ areq[l].answer = "location") =>
              (areq[l].result = "from the engine" /\ ~areq[l].fallback)

\* the engine answered nothing and the fallback resolved the import
C21_Witness ==
    /\ areq["go"].pc = "done"
    /\ areq["go"].asked
    /\ areq["go"].answer = "none"
    /\ areq["go"].fallback
    /\ areq["go"].result = "workspace path"

C24_NoEngineBeforeFirstUse ==
    \A l \in Adapters : engine[l] # "none" => l \in requested

\* C25 (as claimed): an engine that has crashed is eventually running
\* again.
C25_CrashedEngineIsRestarted ==
    \A l \in Adapters : (engine[l] = "dead") ~> (engine[l] = "running")

(***************************************************************************)
(* scan_workspace, the collection of the BUILD files under the root.       *)
(***************************************************************************)
\* the roots the walk can start from, as path components
WalkRoots == {<<"ws">>, <<".">>}

\* the files that can lie beneath the root, as components relative to it
WalkFiles ==
    {<<"BUILD">>, <<"a", "BUILD">>, <<"a", "BUILD.bazel">>,
     <<"a", "main.go">>, <<"a", "BUILD.txt">>,
     <<"bazel-out", "a", "BUILD">>,
     <<"a", "bazel-bin", "b", "BUILD.bazel">>}

\* Path::starts_with: base is a prefix of the path component by component,
\* each component compared as a whole
PathStartsWith(path, base) ==
    /\ Len(base) <= Len(path)
    /\ \A k \in 1..Len(base) : path[k] = base[k]

\* the filter of scan_workspace: a file named BUILD or BUILD.bazel whose
\* path does not start with "bazel-"
IsScannedBuildFile(path) ==
    /\ path[Len(path)] \in {"BUILD", "BUILD.bazel"}
    /\ ~PathStartsWith(path, <<"bazel-">>)

\* WalkDir::new(root) yields every entry beneath root, its path beginning
\* with root; the filter keeps the BUILD files
ScanBuildFiles(root, files) ==
    {root \o f : f \in {g \in files : IsScannedBuildFile(root \o g)}}

NoWalk == [root |-> <<>>, files |-> {}, build_files |-> {}]

\* the walk of one workspace
Walk(root, files) ==
    /\ walked = NoWalk
    /\ walked' = [root |-> root, files |-> files,
                  build_files |-> ScanBuildFiles(root, files)]
    /\ UNCHANGED <<opened, notes, tree>>
    /\ UNCHANGED <<graphVars, cacheVars, buildVars, serverVars, frontVars,
                   adapterVars,
                   extVars>>

\* build_files has been handed to the parsers
WalkReturn ==
    /\ walked # NoWalk
    /\ walked' = NoWalk
    /\ UNCHANGED <<opened, notes, tree>>
    /\ UNCHANGED <<graphVars, cacheVars, buildVars, serverVars, frontVars,
                   adapterVars,
                   extVars>>

WalkNext ==
    \/ \E root \in WalkRoots, files \in SUBSET WalkFiles : Walk(root, files)
    \/ WalkReturn

\* a directory name that matches the output prefix bazel-*
IsOutputDir(name) == Len(name) >= 6 /\ SubSeq(name, 1, 6) = "bazel-"

\* C30 (as claimed): the scan collects a file exactly if it is named BUILD
\* or BUILD.bazel and no directory above it, at any depth under the root,
\* has a name matching bazel-*.
C30_OutputDirectoriesAreExcluded ==
    \A f \in walked.files :
        (walked.root \o f \in walked.build_files) <=>
            /\ f[Len(f)] \in {"BUILD", "BUILD.bazel"}
            /\ \A k \in 1..(Len(f) - 1) : ~IsOutputDir(f[k])

(***************************************************************************)
(* The target tree of the editor: BazelTargetProvider loads getAllTargets  *)
(* when it is constructed and on every bazel/targetsChanged notification.  *)
(***************************************************************************)
IdleTree == [pc |-> "idle", constructed |-> FALSE, seen |-> 0, shown |-> {}]

WalkInit ==
    /\ opened = NoOpened
    /\ walked = NoWalk
    /\ notes = 0
    /\ tree = IdleTree

\* getAllTargets: the labels the Targets map holds
GetAllTargets == {l \in Labels : targets[l] # NoTarget}

\* the constructor calls refresh(), and so does the handler of each
\* bazel/targetsChanged notification: loadTargets sends bazel/getAllTargets
TreeRefresh ==
    /\ tree.pc = "idle"
    /\ ~tree.constructed \/ tree.seen < notes
    /\ tree' = [tree EXCEPT !.pc = "loading", !.constructed = TRUE,
                            !.seen = notes]
    /\ UNCHANGED <<opened, walked, notes>>
    /\ UNCHANGED <<graphVars, cacheVars, buildVars, serverVars, frontVars,
                   adapterVars,
                   extVars>>

\* loadTargets: the answer arrives, read under the read guard, and the
\* tree shows it
TreeLoad ==
    /\ tree.pc = "loading"
    /\ ~rw.writer
    /\ tree' = [tree EXCEPT !.pc = "idle", !.shown = GetAllTargets]
    /\ UNCHANGED <<opened, walked, notes>>
    /\ UNCHANGED <<graphVars, cacheVars, buildVars, serverVars, frontVars,
                   adapterVars,
                   extVars>>

TreeNext == TreeRefresh \/ TreeLoad

\* C26 (as claimed): every scan that has been applied to the graph is
\* followed by a targetsChanged notification: once n scans have run to
\* their end, n notifications are eventually out.
C26_UpdateIsFollowedByNotification ==
    \A n \in 1..MaxScans :
        (scan.pc = "idle" /\ nScans >= n) ~> (notes >= n)

\* the scan, the code lens lookups and the target tree
TreeSpecNext == ScanNext \/ LensNext \/ TreeNext

SessionNext == AdapterNext \/ WalkNext \/ TreeNext

(***************************************************************************)
(* The grammar of BUILD files: rule, arguments, argument and expression,   *)
(* matched as pest matches them, an ordered choice taking the first        *)
(* alternative that succeeds and never coming back to a later one.         *)
(***************************************************************************)
\* ASCII_ALPHA
AsciiAlpha ==
    {"a", "b", "c", "d", "e", "f", "g", "h", "i", "j", "k", "l", "m", "n",
     "o", "p", "q", "r", "s", "t", "u", "v", "w", "x", "y", "z", "A", "B",
     "C", "D", "E", "F", "G", "H", "I", "J", "K", "L", "M", "N", "O", "P",
     "Q", "R", "S", "T", "U", "V", "W", "X", "Y", "Z"}

\* ASCII_DIGIT
AsciiDigit == {"0", "1", "2", "3", "4", "5", "6", "7", "8", "9"}

\* the token at position i of the text, WHITESPACE skipped; past the end
\* there is none
TokenAt(t, i) == IF i <= Len(t) THEN t[i] ELSE "EOI"

\* a literal "...": the position after it if it is the token at i, else 0
MatchLiteral(t, i, lit) == IF TokenAt(t, i) = lit THEN i + 1 ELSE 0

\* string = @{ "\"" ~ string_content ~ "\"" | ... }
MatchString(t, i) ==
    IF i <= Len(t) /\ SubSeq(t[i], 1, 1) = "\"" THEN i + 1 ELSE 0

\* number = @{ "-"? ~ ASCII_DIGIT+ ~ ... }
MatchNumber(t, i) ==
    IF i <= Len(t) /\ SubSeq(t[i], 1, 1) \in AsciiDigit THEN i + 1 ELSE 0

\* boolean = { "True" | "False" }
MatchBoolean(t, i) ==
    IF TokenAt(t, i) \in {"True", "False"} THEN i + 1 ELSE 0

\* identifier = @{ ASCII_ALPHA ~ (ASCII_ALPHANUMERIC | "_")* }
MatchIdentifier(t, i) ==
    IF i <= Len(t) /\ SubSeq(t[i], 1, 1) \in AsciiAlpha THEN i + 1 ELSE 0

RECURSIVE MatchExpression(_, _)
RECURSIVE MatchListRest(_, _)
RECURSIVE MatchDictRest(_, _)
RECURSIVE MatchGlobRest(_, _)

\* ("," ~ expression)* ~ ","? ~ "]"
MatchListRest(t, i) ==
    LET e == IF TokenAt(t, i) = "," THEN MatchExpression(t, i + 1) ELSE 0
    IN IF e # 0 THEN MatchListRest(t, e)
       ELSE MatchLiteral(t, IF TokenAt(t, i) = "," THEN i + 1 ELSE i, "]")

\* list = { "[" ~ (expression ~ ("," ~ expression)* ~ ","?)? ~ "]" }
MatchList(t, i) ==
    IF TokenAt(t, i) # "[" THEN 0
    ELSE LET e == MatchExpression(t, i + 1)
         IN IF e # 0 /\ MatchListRest(t, e) # 0 THEN MatchListRest(t, e)
            ELSE MatchLiteral(t, i + 1, "]")

\* dict_entry = { expression ~ ":" ~ expression }
MatchDictEntry(t, i) ==
    LET k == MatchExpression(t, i)
    IN IF k = 0 \/ TokenAt(t, k) # ":" THEN 0
       ELSE MatchExpression(t, k + 1)

\* ("," ~ dict_entry)* ~ ","? ~ "}"
MatchDictRest(t, i) ==
    LET e == IF TokenAt(t, i) = "," THEN MatchDictEntry(t, i + 1) ELSE 0
    IN IF e # 0 THEN MatchDictRest(t, e)
       ELSE MatchLiteral(t, IF TokenAt(t, i) = "," THEN i + 1 ELSE i, "}")

\* dict = { "{" ~ (dict_entry ~ ("," ~ dict_entry)* ~ ","?)? ~ "}" }
MatchDict(t, i) ==
    IF TokenAt(t, i) # "{" THEN 0
    ELSE LET e == MatchDictEntry(t, i + 1)
         IN IF e # 0 /\ MatchDictRest(t, e) # 0 THEN MatchDictRest(t, e)
            ELSE MatchLiteral(t, i + 1, "}")

\* ("," ~ identifier ~ "=" ~ expression)* ~ ")"
MatchGlobRest(t, i) ==
    LET e == IF /\ TokenAt(t, i) = ","
                /\ MatchIdentifier(t, i + 1) # 0
                /\ TokenAt(t, i + 2) = "="
             THEN MatchExpression(t, i + 3) ELSE 0
    IN IF e # 0 THEN MatchGlobRest(t, e) ELSE MatchLiteral(t, i, ")")

\* glob_expr = { "glob" ~ "(" ~ list ~ ("," ~ identifier ~ "=" ~
\* expression)* ~ ")" }
MatchGlobExpr(t, i) ==
    IF TokenAt(t, i) # "glob" \/ TokenAt(t, i + 1) # "(" THEN 0
    ELSE LET l == MatchList(t, i + 2)
         IN IF l = 0 THEN 0 ELSE MatchGlobRest(t, l)

\* select_expr = { "select" ~ "(" ~ dict ~ ")" }
MatchSelectExpr(t, i) ==
    IF TokenAt(t, i) # "select" \/ TokenAt(t, i + 1) # "(" THEN 0
    ELSE LET d == MatchDict(t, i + 2)
         IN IF d = 0 THEN 0 ELSE MatchLiteral(t, d, ")")

\* the alternatives of expression tried in the order of their naming; the
\* first that matches is the match of expression
FirstMatch(ends) ==
    IF \A k \in 1..Len(ends) : ends[k] = 0 THEN 0
    ELSE ends[CHOOSE k \in 1..Len(ends) :
                  ends[k] # 0 /\ \A m \in 1..(k - 1) : ends[m] = 0]

\* expression = { string | list | dict | number | boolean | identifier |
\* glob_expr | select_expr }
MatchExpression(t, i) ==
    FirstMatch(<<MatchString(t, i), MatchList(t, i), MatchDict(t, i),
                 MatchNumber(t, i), MatchBoolean(t, i),
                 MatchIdentifier(t, i), MatchGlobExpr(t, i),
                 MatchSelectExpr(t, i)>>)

\* argument = { identifier ~ "=" ~ expression }
MatchArgument(t, i) ==
    IF MatchIdentifier(t, i) = 0 \/ TokenAt(t, i + 1) # "=" THEN 0
    ELSE MatchExpression(t, i + 2)

RECURSIVE MatchArgumentsRest(_, _)

\* ("," ~ argument)* ~ ","?
MatchArgumentsRest(t, i) ==
    LET e == IF TokenAt(t, i) = "," THEN MatchArgument(t, i + 1) ELSE 0
    IN IF e # 0 THEN MatchArgumentsRest(t, e)
       ELSE IF TokenAt(t, i) = "," THEN i + 1 ELSE i

\* arguments = { argument ~ ("," ~ argument)* ~ ","? }
MatchArguments(t, i) ==
    LET a == MatchArgument(t, i)
    IN IF a = 0 THEN 0 ELSE MatchArgumentsRest(t, a)

\* rule = { identifier ~ "(" ~ arguments? ~ ")" }
MatchRule(t, i) ==
    IF MatchIdentifier(t, i) = 0 \/ TokenAt(t, i + 1) # "(" THEN 0
    ELSE LET a == MatchArguments(t, i + 2)
         IN MatchLiteral(t, IF a = 0 THEN i + 2 ELSE a, ")")

\* file = { SOI ~ statement* ~ EOI } on a text of one rule: the statement
\* is matched, or none is, and EOI must follow
MatchFile(t) ==
    LET r == MatchRule(t, 1)
    IN (IF r = 0 THEN 1 ELSE r) = Len(t) + 1

\* the rule names, target names and attribute names of the texts
GrammarKinds == {"go_library", "go_binary", "java_library", "filegroup"}

GrammarAttrs == {"srcs", "data", "deps"}

\* the attribute values of the texts, as tokens: a string, lists, a dict,
\* a number, a boolean, an identifier, glob calls and a select call
GrammarValues ==
    {<<"\"a.go\"">>,
     <<"[", "]">>,
     <<"[", "\"a.go\"", "]">>,
     <<"[", "\"a.go\"", ",", "\"b.go\"", ",", "]">>,
     <<"{", "\"k\"", ":", "\"v\"", "}">>,
     <<"1">>,
     <<"True">>,
     <<"SRCS">>,
     <<"glob", "(", "[", "\"*.go\"", "]", ")">>,
     <<"glob", "(", "[", "\"*.go\"", "]", ",", "exclude", "=",
       "[", "\"x.go\"", "]", ")">>,
     <<"select", "(", "{", "\"//conditions:default\"", ":",
       "[", "\":lib\"", "]", "}", ")">>}

\* the text kind(name = "lib", attr = value)
RuleText(kind, attr, value) ==
    <<kind, "(", "name", "=", "\"lib\"", ",", attr, "=">> \o value
        \o <<")">>

NoGram == [text |-> <<>>, value |-> <<>>, matched |-> FALSE]

\* BuildParser::parse(Rule::file, text) on the text of one rule
GrammarParse(kind, attr, value) ==
    /\ gram = NoGram
    /\ gram' = [text |-> RuleText(kind, attr, value), value |-> value,
                matched |-> MatchFile(RuleText(kind, attr, value))]
    /\ UNCHANGED <<editor, cmd, view, act, clens>>
    /\ UNCHANGED <<graphVars, cacheVars, buildVars, serverVars, frontVars,
                   sessionVars>>

\* the pairs have been consumed
GrammarReturn ==
    /\ gram # NoGram
    /\ gram' = NoGram
    /\ UNCHANGED <<editor, cmd, view, act, clens>>
    /\ UNCHANGED <<graphVars, cacheVars, buildVars, serverVars, frontVars,
                   sessionVars>>

GrammarNext ==
    \/ \E kind \in GrammarKinds, attr \in GrammarAttrs,
          value \in GrammarValues : GrammarParse(kind, attr, value)
    \/ GrammarReturn

\* C31 (as claimed): a rule invocation whose attribute value is a glob
\* call or a select call parses: the text is matched as one rule.
C31_GlobAndSelectValuesParse ==
    (gram # NoGram /\ gram.value[1] \in {"glob", "select"}) => gram.matched

(***************************************************************************)
(* registerCommands: the commands of the extension, each an async handler  *)
(* that asks the server for the target of the active editor's file.        *)
(***************************************************************************)
\* editor.document.languageId of the editors that can be active
EditorLanguages == {"go", "python", "java", "starlark"}

\* the commands that act on a bazel invocation
CommandNames ==
    {"bazel.build", "bazel.test", "bazel.run", "bazel.clean",
     "bazel.showDependencies", "bazel.debug"}

\* what result?.target can be when bazel/getTargetForFile is answered: a
\* label, the empty string, or undefined (a null result, or one without
\* target); the request can be rejected instead
TargetReplies == {"//a:x", "", "undefined", "rejected"}

IdleCmd ==
    [pc |-> "idle", name |-> "none", target |-> "undefined",
     language |-> "none", errors |-> <<>>, terminal |-> "none",
     sent |-> "none", requests |-> <<>>, debug |-> "none",
     panel |-> FALSE, thrown |-> FALSE]

\* the target is used whatever it is
HasTargetUnchecked(target) == TRUE

\* if (!target): undefined and the empty string are no target
HasTarget(target) == target # "undefined" /\ target # ""

\* a debugger type is made up from any language
DebugTypeOfAnyLanguage(language) == "bazel-" \o language

\* the switch of bazel.debug: the debugger type of a language, '' when the
\* default branch is taken
DebugType(language) ==
    IF language = "go" THEN "bazel-go"
    ELSE IF language = "python" THEN "bazel-python"
    ELSE ""

\* the terminal and the command line of the build, test and run commands
TerminalOf(name) ==
    IF name = "bazel.build" THEN "Bazel Build"
    ELSE IF name = "bazel.test" THEN "Bazel Test"
    ELSE IF name = "bazel.run" THEN "Bazel Run"
    ELSE "Bazel Clean"

TextOf(name, target) ==
    IF name = "bazel.build" THEN "bazel build " \o target
    ELSE IF name = "bazel.test" THEN "bazel test " \o target
    ELSE IF name = "bazel.run" THEN "bazel run " \o target
    ELSE "bazel clean"

\* the error message of a command without a target
NoTargetMessage(name) ==
    IF name = "bazel.test"
    THEN "No Bazel test target found for current file"
    ELSE IF name = "bazel.run"
    THEN "No runnable Bazel target found for current file"
    ELSE IF name = "bazel.debug"
    THEN "No debuggable Bazel target found for current file"
    ELSE "No Bazel target found for current file"

\* the handler from the point where getTargetForCurrentFile has given
\* target, up to its next await or its end; ed is the editor active then
AfterTarget(c, target, ed) ==
    IF ~HasTarget(target)
    THEN [c EXCEPT !.pc = "done", !.target = target,
                   !.errors = Append(@, NoTargetMessage(c.name))]
    ELSE IF c.name \in {"bazel.build", "bazel.test", "bazel.run"}
    THEN [c EXCEPT !.pc = "done", !.target = target,
                   !.terminal = TerminalOf(c.name),
                   !.sent = TextOf(c.name, target)]
    ELSE IF c.name = "bazel.showDependencies"
    THEN [c EXCEPT !.pc = "deps", !.target = target,
                   !.requests = Append(@, "bazel/getDependencies")]
    ELSE IF ed = "none"
    THEN [c EXCEPT !.pc = "done", !.target = target]
    ELSE IF DebugType(ed) = ""
    THEN [c EXCEPT !.pc = "done", !.target = target, !.language = ed,
                   !.errors = Append(@, "Debugging not supported")]
    ELSE [c EXCEPT !.pc = "done", !.target = target, !.language = ed,
                   !.debug = DebugType(ed)]

\* the user makes another editor the active one, or closes the last
EditorSwitch(language) ==
    /\ editor # language
    /\ editor' = language
    /\ UNCHANGED <<gram, cmd, view, act, clens>>
    /\ UNCHANGED <<graphVars, cacheVars, buildVars, serverVars, frontVars,
                   sessionVars>>

\* a command is invoked: bazel.clean runs at once; the others call
\* getTargetForCurrentFile, which gives undefined without an editor and
\* otherwise sends bazel/getTargetForFile
CommandInvoke(name) ==
    /\ cmd.pc = "idle"
    /\ cmd' =
          IF name = "bazel.clean"
          THEN [IdleCmd EXCEPT !.pc = "done", !.name = name,
                               !.terminal = TerminalOf(name),
                               !.sent = TextOf(name, "")]
          ELSE IF editor = "none"
          THEN AfterTarget([IdleCmd EXCEPT !.name = name], "undefined",
                           editor)
          ELSE [IdleCmd EXCEPT !.pc = "target", !.name = name,
                               !.requests = <<"bazel/getTargetForFile">>]
    /\ UNCHANGED <<gram, editor, view, act, clens>>
    /\ UNCHANGED <<graphVars, cacheVars, buildVars, serverVars, frontVars,
                   sessionVars>>

\* bazel/getTargetForFile is answered or rejected
CommandTargetReply(reply) ==
    /\ cmd.pc = "target"
    /\ cmd' = IF reply = "rejected"
              THEN [cmd EXCEPT !.pc = "done", !.thrown = TRUE]
              ELSE AfterTarget(cmd, reply, editor)
    /\ UNCHANGED <<gram, editor, view, act, clens>>
    /\ UNCHANGED <<graphVars, cacheVars, buildVars, serverVars, frontVars,
                   sessionVars>>

\* bazel/getDependencies is answered, and the panel is created, or it is
\* rejected
CommandDepsReply(ok) ==
    /\ cmd.pc = "deps"
    /\ cmd' = IF ok THEN [cmd EXCEPT !.pc = "done", !.panel = TRUE]
              ELSE [cmd EXCEPT !.pc = "done", !.thrown = TRUE]
    /\ UNCHANGED <<gram, editor, view, act, clens>>
    /\ UNCHANGED <<graphVars, cacheVars, buildVars, serverVars, frontVars,
                   sessionVars>>

\* the handler has ended
CommandReturn ==
    /\ cmd.pc = "done"
    /\ cmd' = IdleCmd
    /\ UNCHANGED <<gram, editor, view, act, clens>>
    /\ UNCHANGED <<graphVars, cacheVars, buildVars, serverVars, frontVars,
                   sessionVars>>

CommandNext ==
    \/ \E language \in EditorLanguages \cup {"none"} : EditorSwitch(language)
    \/ \E name \in CommandNames : CommandInvoke(name)
    \/ \E reply \in TargetReplies : CommandTargetReply(reply)
    \/ \E ok \in BOOLEAN : CommandDepsReply(ok)
    \/ CommandReturn

C34_NoTargetOnlyShowsError ==
    (/\ cmd.pc = "done"
     /\ cmd.name \in {"bazel.build", "bazel.test", "bazel.run",
                      "bazel.showDependencies", "bazel.debug"}
     /\ ~cmd.thrown
     /\ cmd.target \in {"undefined", ""}) =>
        /\ Len(cmd.errors) = 1
        /\ cmd.terminal = "none"
        /\ cmd.sent = "none"
        /\ \A k \in 1..Len(cmd.requests) :
              cmd.requests[k] = "bazel/getTargetForFile"
        /\ cmd.debug = "none"
        /\ ~cmd.panel

\* the server has answered bazel.run's lookup without a target
C34_Witness ==
    /\ cmd.pc = "done"
    /\ cmd.name = "bazel.run"
    /\ cmd.requests = <<"bazel/getTargetForFile">>
    /\ cmd.target = "undefined"
    /\ cmd.errors = <<"No runnable Bazel target found for current file">>

(***************************************************************************)
(* BazelTargetProvider.refresh and loadTargets: every refresh sends its    *)
(* own bazel/getAllTargets and fills the package-to-targets map when its   *)
(* response arrives.                                                       *)
(***************************************************************************)
\* the most refreshes of a run
MaxRefreshes == 3

\* the targets a response can hold
ViewTarget(pkg, name) == [label |-> MakeLabel(pkg, name), package |-> pkg]

\* the results of bazel/getAllTargets, in the order the server lists them
ViewResults ==
    {<<>>,
     <<ViewTarget("a", "x")>>,
     <<ViewTarget("a", "x"), ViewTarget("b", "x")>>,
     <<ViewTarget("b", "x"), ViewTarget("a", "x"), ViewTarget("a", "y")>>}

\* new Map(): no package has a target
EmptyView == [p \in Packages |-> <<>>]

IdleView ==
    [targets |-> EmptyView, issued |-> 0, pending |-> {}, failed |-> {},
     answers |-> [id \in 1..MaxRefreshes |-> <<>>], before |-> EmptyView,
     last |-> [id |-> 0, ok |-> TRUE, result |-> <<>>], fired |-> 0]

RECURSIVE GroupByPackage(_, _)

\* for (const target of result): the target is pushed onto the list of its
\* package, which is created when the map has none
GroupByPackage(map, result) ==
    IF result = <<>> THEN map
    ELSE GroupByPackage(
             [map EXCEPT ![Head(result).package] = Append(@, Head(result))],
             Tail(result))

\* the targets of the response are added to those the map holds
ApplyResponseWithoutClear(map, result) == GroupByPackage(map, result)

\* loadTargets after the await: this.targets.clear(), then the grouping
ApplyResponse(map, result) == GroupByPackage(EmptyView, result)

\* refresh(), from the constructor or from a bazel/targetsChanged
\* notification: loadTargets sends bazel/getAllTargets
ViewRefresh ==
    /\ view.issued < MaxRefreshes
    /\ view' = [view EXCEPT !.issued = @ + 1,
                            !.pending = @ \cup {view.issued + 1}]
    /\ UNCHANGED <<gram, editor, cmd, act, clens>>
    /\ UNCHANGED <<graphVars, cacheVars, buildVars, serverVars, frontVars,
                   sessionVars>>

\* the response of one of the requests arrives, those of requests the
\* server handles side by side in any order: the map is filled from it, and
\* the tree is told to redraw
ViewResponse(id, result) ==
    /\ id \in view.pending
    /\ view' = [view EXCEPT
                   !.pending = @ \ {id},
                   !.before = view.targets,
                   !.targets = ApplyResponse(@, result),
                   !.answers = [@ EXCEPT ![id] = result],
                   !.last = [id |-> id, ok |-> TRUE, result |-> result],
                   !.fired = @ + 1]
    /\ UNCHANGED <<gram, editor, cmd, act, clens>>
    /\ UNCHANGED <<graphVars, cacheVars, buildVars, serverVars, frontVars,
                   sessionVars>>

\* one of the requests is rejected: catch logs the error, and the tree is
\* told to redraw
ViewFailure(id) ==
    /\ id \in view.pending
    /\ view' = [view EXCEPT
                   !.pending = @ \ {id},
                   !.failed = @ \cup {id},
                   !.before = view.targets,
                   !.last = [id |-> id, ok |-> FALSE, result |-> <<>>],
                   !.fired = @ + 1]
    /\ UNCHANGED <<gram, editor, cmd, act, clens>>
    /\ UNCHANGED <<graphVars, cacheVars, buildVars, serverVars, frontVars,
                   sessionVars>>

ViewNext ==
    \/ ViewRefresh
    \/ \E id \in 1..MaxRefreshes, result \in ViewResults :
           ViewResponse(id, result)
    \/ \E id \in 1..MaxRefreshes : ViewFailure(id)

\* C35 (as claimed): once every refresh has completed, the map holds the
\* targets of the response to the request that was issued last, if that
\* request was answered, and not those of an earlier request.
C35_LastIssuedRequestWins ==
    (/\ view.issued >= 1
     /\ view.pending = {}
     /\ view.issued \notin view.failed) =>
        \A p \in Packages :
            view.targets[p] =
                SelectSeq(view.answers[view.issued],
                          LAMBDA t : t.package = p)

\* C36: a rejected bazel/getAllTargets leaves the map as it was; after an
\* answered one the map holds, for each package, exactly the targets of
\* that package in the response, in the order of the response.
C36_LoadReplacesOrLeavesTheMap ==
    view.last.id # 0 =>
        IF view.last.ok
        THEN \A p \in Packages :
                 view.targets[p] =
                     SelectSeq(view.last.result, LAMBDA t : t.package = p)
        ELSE view.targets = view.before

\* a first load has filled the map for both packages, and a second load
\* with a smaller response has replaced it
C36_Witness ==
    /\ view.last.id = 2
    /\ view.last.ok
    /\ view.before["b"] # <<>>
    /\ view.targets["b"] = <<>>
    /\ view.targets["a"] # <<>>

(***************************************************************************)
(* activate, sendConfiguration and BazelCodeLensProvider, in the two       *)
(* versions of the extension's entry file the repository holds.            *)
(***************************************************************************)
\* the two versions of the entry file
EntryFiles == {"extension/src/extension.ts", "unnamed/part_009"}

\* the most configuration changes of a run
MaxConfigs == 1

\* client.state: Stopped = 1, Running = 2, Starting = 3; "none" before the
\* client is constructed
Inactive ==
    [pc |-> "inactive", entry |-> "none", client |-> "none",
     startDone |-> FALSE, codeLens |-> FALSE, provider |-> FALSE,
     listener |-> FALSE, timer |-> FALSE, sent |-> 0, changes |-> 0,
     early |-> FALSE]

IdleCodeLens ==
    [pc |-> "idle", cancelled |-> FALSE, sentIn |-> "none",
     sentCancelled |-> FALSE, outcome |-> "none"]

\* sendConfiguration: if (!client) return; otherwise
\* workspace/didChangeConfiguration is sent; early records a notification
\* sent before client.start() has completed
SendConfiguration(a) ==
    IF a.client = "none" THEN a
    ELSE [a EXCEPT !.sent = @ + 1, !.early = @ \/ ~a.startDone]

\* the configuration is sent as soon as the client is constructed
ActivateThenConfigure(entry, binary, codeLensEnabled) ==
    /\ act.pc = "inactive"
    /\ act' = IF ~binary
              THEN [Inactive EXCEPT !.pc = "failed", !.entry = entry]
              ELSE SendConfiguration(
                       [Inactive EXCEPT
                           !.pc = "starting", !.entry = entry,
                           !.client = "Starting",
                           !.codeLens = codeLensEnabled,
                           !.provider =
                               /\ entry = "extension/src/extension.ts"
                               /\ codeLensEnabled])
    /\ UNCHANGED <<gram, editor, cmd, view, clens>>
    /\ UNCHANGED <<graphVars, cacheVars, buildVars, serverVars, frontVars,
                   sessionVars>>

\* activate up to await client.start(): a missing server binary throws;
\* otherwise the client is constructed, the commands and the tree are
\* registered, extension.ts registers the CodeLens provider, and the
\* client is started
Activate(entry, binary, codeLensEnabled) ==
    /\ act.pc = "inactive"
    /\ act' = IF ~binary
              THEN [Inactive EXCEPT !.pc = "failed", !.entry = entry]
              ELSE [Inactive EXCEPT
                       !.pc = "starting", !.entry = entry,
                       !.client = "Starting",
                       !.codeLens = codeLensEnabled,
                       !.provider =
                           /\ entry = "extension/src/extension.ts"
                           /\ codeLensEnabled]
    /\ UNCHANGED <<gram, editor, cmd, view, clens>>
    /\ UNCHANGED <<graphVars, cacheVars, buildVars, serverVars, frontVars,
                   sessionVars>>

\* client.start() has completed. part_009 registers the CodeLens provider
\* and awaits sendConfiguration(); extension.ts sets the timer of
\* sendConfiguration and registers the configuration listener
ActivateStarted ==
    /\ act.pc = "starting"
    /\ act' =
          IF act.entry = "unnamed/part_009"
          THEN SendConfiguration(
                   [act EXCEPT !.pc = "configuring", !.client = "Running",
                               !.startDone = TRUE,
                               !.provider = act.codeLens])
          ELSE [act EXCEPT !.pc = "active", !.client = "Running",
                           !.startDone = TRUE, !.timer = TRUE,
                           !.listener = TRUE]
    /\ UNCHANGED <<gram, editor, cmd, view, clens>>
    /\ UNCHANGED <<graphVars, cacheVars, buildVars, serverVars, frontVars,
                   sessionVars>>

\* client.start() is rejected: catch shows the error and throws it on
ActivateStartFailed ==
    /\ act.pc = "starting"
    /\ act' = [act EXCEPT !.pc = "failed", !.client = "Stopped"]
    /\ UNCHANGED <<gram, editor, cmd, view, clens>>
    /\ UNCHANGED <<graphVars, cacheVars, buildVars, serverVars, frontVars,
                   sessionVars>>

\* part_009: the awaited sendConfiguration() ends; on success the
\* configuration listener is registered, on failure activate throws
ActivateConfigured(ok) ==
    /\ act.pc = "configuring"
    /\ act' = IF ok THEN [act EXCEPT !.pc = "active", !.listener = TRUE]
              ELSE [act EXCEPT !.pc = "failed"]
    /\ UNCHANGED <<gram, editor, cmd, view, clens>>
    /\ UNCHANGED <<graphVars, cacheVars, buildVars, serverVars, frontVars,
                   sessionVars>>

\* extension.ts: the timer set after the start fires, a second later
ConfigurationTimer ==
    /\ act.timer
    /\ act' = SendConfiguration([act EXCEPT !.timer = FALSE])
    /\ UNCHANGED <<gram, editor, cmd, view, clens>>
    /\ UNCHANGED <<graphVars, cacheVars, buildVars, serverVars, frontVars,
                   sessionVars>>

\* onDidChangeConfiguration with a change that affects 'bazel'
ConfigurationChanged ==
    /\ act.listener
    /\ act.changes < MaxConfigs
    /\ act' = SendConfiguration([act EXCEPT !.changes = @ + 1])
    /\ UNCHANGED <<gram, editor, cmd, view, clens>>
    /\ UNCHANGED <<graphVars, cacheVars, buildVars, serverVars, frontVars,
                   sessionVars>>

\* the server process ends, or the client is stopped
ClientStopped ==
    /\ act.client = "Running"
    /\ act' = [act EXCEPT !.client = "Stopped"]
    /\ UNCHANGED <<gram, editor, cmd, view, clens>>
    /\ UNCHANGED <<graphVars, cacheVars, buildVars, serverVars, frontVars,
                   sessionVars>>

\* the editor calls provideCodeLenses with a token. part_009 returns []
\* unless the client is Running and the token is not cancelled, and sends
\* textDocument/codeLens otherwise; extension.ts sends it in every case
ProvideCodeLenses(cancelled) ==
    /\ act.provider
    /\ clens.pc = "idle"
    /\ clens' =
          IF act.entry = "unnamed/part_009"
          THEN IF act.client # "Running" \/ cancelled
               THEN [IdleCodeLens EXCEPT !.pc = "done",
                                         !.cancelled = cancelled,
                                         !.outcome = "empty"]
               ELSE [IdleCodeLens EXCEPT !.pc = "awaiting",
                                         !.sentIn = act.client]
          ELSE [IdleCodeLens EXCEPT !.pc = "awaiting",
                                    !.cancelled = cancelled,
                                    !.sentIn = act.client,
                                    !.sentCancelled = cancelled]
    /\ UNCHANGED <<gram, editor, cmd, view, act>>
    /\ UNCHANGED <<graphVars, cacheVars, buildVars, serverVars, frontVars,
                   sessionVars>>

\* the editor cancels the token while the request is out
CodeLensCancel ==
    /\ clens.pc = "awaiting"
    /\ ~clens.cancelled
    /\ clens' = [clens EXCEPT !.cancelled = TRUE]
    /\ UNCHANGED <<gram, editor, cmd, view, act>>
    /\ UNCHANGED <<graphVars, cacheVars, buildVars, serverVars, frontVars,
                   sessionVars>>

\* what the awaited sendRequest can end with: a result, the rejection of
\* a cancelled request, or another rejection
CodeLensReplies == {"lenses", "Canceled", "error"}

\* the request ends. part_009 returns [] for a cancelled token and from
\* catch; extension.ts returns the result and lets a rejection through
CodeLensReply(reply) ==
    /\ clens.pc = "awaiting"
    /\ clens' =
          [clens EXCEPT
              !.pc = "done",
              !.outcome =
                  IF act.entry = "unnamed/part_009"
                  THEN IF reply = "lenses" /\ ~clens.cancelled
                       THEN "lenses" ELSE "empty"
                  ELSE IF reply = "lenses" THEN "lenses" ELSE "thrown"]
    /\ UNCHANGED <<gram, editor, cmd, view, act>>
    /\ UNCHANGED <<graphVars, cacheVars, buildVars, serverVars, frontVars,
                   sessionVars>>

\* the editor has taken the lenses
CodeLensReturn ==
    /\ clens.pc = "done"
    /\ clens' = IdleCodeLens
    /\ UNCHANGED <<gram, editor, cmd, view, act>>
    /\ UNCHANGED <<graphVars, cacheVars, buildVars, serverVars, frontVars,
                   sessionVars>>

ActivationNext ==
    \/ \E entry \in EntryFiles, binary \in BOOLEAN,
          codeLensEnabled \in BOOLEAN :
           Activate(entry, binary, codeLensEnabled)
    \/ ActivateStarted
    \/ ActivateStartFailed
    \/ \E ok \in BOOLEAN : ActivateConfigured(ok)
    \/ ConfigurationTimer
    \/ ConfigurationChanged
    \/ ClientStopped
    \/ \E cancelled \in BOOLEAN : ProvideCodeLenses(cancelled)
    \/ CodeLensCancel
    \/ \E reply \in CodeLensReplies : CodeLensReply(reply)
    \/ CodeLensReturn

\* C37: no workspace/didChangeConfiguration is sent before client.start()
\* has completed, and none at all when activation fails before that.
C37_ConfigurationOnlyAfterStart ==
    /\ ~act.early
    /\ (act.pc = "failed" /\ ~act.startDone) => act.sent = 0

\* the client has started and the configuration has been sent twice, once
\* by activate and once for a change of the settings
C37_Witness ==
    /\ act.pc = "active"
    /\ act.startDone
    /\ act.sent = 2
    /\ ~act.early

\* C38 (as claimed): textDocument/codeLens is sent only while the client
\* is Running and the token is not cancelled; in every other case, and
\* when the request fails or is cancelled, the provider returns an empty
\* list and does not throw.
C38_CodeLensGuardedAndNeverThrows ==
    /\ clens.sentIn # "none" =>
          (clens.sentIn = "Running" /\ ~clens.sentCancelled)
    /\ clens.pc = "done" => clens.outcome \in {"lenses", "empty"}
    /\ (clens.pc = "done" /\ clens.sentIn = "none") =>
          clens.outcome = "empty"

ExtInit ==
    /\ gram = NoGram
    /\ editor = "none"
    /\ cmd = IdleCmd
    /\ view = IdleView
    /\ act = Inactive
    /\ clens = IdleCodeLens

ExtNext == GrammarNext \/ CommandNext \/ ViewNext \/ ActivationNext

Init ==
    /\ GraphInit /\ CacheInit /\ BuildInit /\ ServerInit /\ FrontInit
    /\ AdapterInit /\ WalkInit /\ ExtInit

Next ==
    \/ GraphNext \/ CacheNext \/ BuildNext \/ ServerNext \/ FrontNext
    \/ SessionNext
    \/ ExtNext

Spec == Init /\ [][Next]_vars

\* the Build Graph alone
GraphSpec == Init /\ [][GraphNext]_vars

\* the query cache alone
CacheSpec == Init /\ [][CacheNext]_vars

\* the streamed build alone
BuildSpec == Init /\ [][BuildNext]_vars

\* the scan of the workspace and the code lens lookups
ServerSpec == Init /\ [][ServerNext]_vars

\* the scan of the workspace and the per-file updates
LockSpec == Init /\ [][LockNext]_vars

\* one short build and the code lens lookups
LensBuildSpec == Init /\ [][LensBuildNext]_vars

\* the parser applied to one file
ParserSpec == Init /\ [][ParserNext]_vars

\* handle_did_open applied to one file
OpenSpec == Init /\ [][OpenNext]_vars

\* the scan of the workspace and goto_definition
DefSpec == Init /\ [][DefSpecNext]_vars

\* the requests to the language adapters
AdapterSpec == Init /\ [][AdapterNext]_vars

\* the same, every step that can be taken being taken in the end
AdapterFairSpec == Init /\ [][AdapterNext]_vars /\ WF_vars(AdapterNext)

\* the scan, the code lens lookups and the target tree, every step that
\* can be taken being taken in the end
TreeFairSpec == Init /\ [][TreeSpecNext]_vars /\ WF_vars(TreeSpecNext)

\* the walk that collects the BUILD files
WalkSpec == Init /\ [][WalkNext]_vars

\* the grammar applied to one rule
GrammarSpec == Init /\ [][GrammarNext]_vars

\* the commands of the extension
CommandSpec == Init /\ [][CommandNext]_vars

\* the loads of the target tree
ViewSpec == Init /\ [][ViewNext]_vars

\* the activation of the extension and its CodeLens provider
ActivationSpec == Init /\ [][ActivationNext]_vars

====
